---- MODULE Spec2Model ----
(***************************************************************************)
(* A model of mygit (taxintt/codecrafters-git-go): the loose-object store  *)
(* and its three write paths, the clone command and its pack reader, the   *)
(* command dispatcher, and the hash-object / cat-file / ls-tree commands.  *)
(*                                                                         *)
(* The module holds several specifications over one set of variables.      *)
(* Each specification drives one group of variables and leaves the other   *)
(* groups at their initial ("parked") values:                              *)
(*   SpecStore  sequential puts through writeObject, hashObjectCmd and     *)
(*              writeGitObject, with failing writes                        *)
(*   SpecPut    parallel puts through writeObject, no failures             *)
(*   SpecClone  cloneCmd: init, ref, pack reading, object files, restore   *)
(*   SpecCli    main / run and the argument handling of the handlers       *)
(*   SpecBlob   hash-object -w followed by cat-file -p                     *)
(*   SpecLsTree ls-tree --name-only on a stored tree                       *)
(***************************************************************************)
EXTENDS Integers, Sequences, FiniteSets, TLC

VARIABLES
    \* ---- the object store (.git/objects) and the puts running on it
    dirs,       \* the fan-out directories .git/objects/<xx> that exist
    files,      \* object id -> the file at .git/objects/<xx>/<38hex>
    proc,       \* put -> its position, arguments, locals and return values
    \* ---- clone: the command, the remote's packfile, the session, the disk
    cl,         \* cloneCmd: position, arguments, locals, returned Status
    pack,       \* the packfile the remote answers with (packfileBuf)
    shaToObj,   \* the session's map from identifier to fetched Object
    fsys,       \* directories and files below the working directory
    \* ---- one run of the program from main
    cli,        \* os.Args, the position in main / run, Status, exit code
    \* ---- hash-object -w <file> followed by cat-file -p <id>
    bl,         \* the file, the object file written, what was printed
    \* ---- ls-tree --name-only <id>
    lt,         \* the tree's entries, the object file, what was printed
    \* ---- write-tree
    wt,         \* the working directory, the calls of WriteTreeObject, the store
    \* ---- one object written by an operation and read back
    fr,         \* the input, the operation, the object file, what was read
    \* ---- restoreRepository on a stored commit
    rs,         \* the tree, the calls of traverseTree, what was written
    \* ---- the runs of a clone that is cancelled and run again
    rr,         \* which run this is, where the first was cancelled
    \* ---- one pkt-line sent and read
    pk,         \* the payload, the stream, what readPacketLine returned
    \* ---- one pack entry header being decoded
    hd,         \* the bytes left and read, the type and size so far
    \* ---- one undeltified pack entry being read
    en,         \* its header and DEFLATE stream, what readObject made of it
    \* ---- one ref-delta entry being applied to its base
    dl,         \* the base, the delta stream left, the result so far
    \* ---- one tree body being parsed
    pt          \* the bytes left, the children so far, the error

storeVars == <<dirs, files, proc>>
cloneVars == <<cl, pack, shaToObj, fsys>>

(***************************************************************************)
(* Bounds of the model.                                                    *)
(***************************************************************************)
\* puts (calls of a write path) in one behaviour
NumProcs == 2
\* distinct framed objects, named by their identifiers
NumObjs == 2
\* write(2) calls the zlib writer issues for one object (Write, then Close)
NChunks == 2

Procs == 1..NumProcs
\* An identifier stands for the SHA-1 of one framed object; identifiers are
\* collision-free (spec, Data model), so distinct objects have distinct ids.
ObjIds == 1..NumObjs

(***************************************************************************)
(* Files and paths of the object store.                                    *)
(***************************************************************************)
\* objectPath: .git/objects/sha[:2]/sha[2:]. Two identifiers may share the
\* first two hex digits, hence the directory.
ShaPrefix(sha) == ((sha - 1) % 2) + 1

NoFile == [exists |-> FALSE, data |-> <<>>]

\* zlib.NewWriter(object).Write(data); Close(): the compressed stream of the
\* framed object x, in the order of the write calls that carry it.
Compressed(x) == [i \in 1..NChunks |-> <<x, i>>]

Complete(x) == [exists |-> TRUE, data |-> Compressed(x)]

\* A hole left by a write past the end of the file reads as zero bytes.
Hole == <<0, 0>>

\* os.OpenFile(path, O_CREATE|O_WRONLY, 0644) and, with trunc, os.Create
\* (O_RDWR|O_CREATE|O_TRUNC): the file after the call.
OpenFile(f, trunc) ==
    IF ~f.exists \/ trunc THEN [exists |-> TRUE, data |-> <<>>] ELSE f

\* write(2) of one chunk at the writer's own offset off (no O_APPEND).
WriteAt(f, o, chunk) ==
    LET pad == [i \in 1..(IF o > Len(f.data) THEN o - Len(f.data) ELSE 0) |-> Hole]
        d   == f.data \o pad
    IN  [f EXCEPT !.data = IF o < Len(d) THEN [d EXCEPT ![o + 1] = chunk]
                                           ELSE Append(d, chunk)]

\* os.Mkdir on the fan-out directory: the error it returns.
MkdirErr(d) == IF d \in dirs THEN "EEXIST" ELSE "nil"

\* writeObject: `err != nil && !os.IsExist(err)` makes the put fail.
WriteObjectMkdirFailsStrict(e) == e # "nil"

WriteObjectMkdirFails(e) == e # "nil" /\ e # "EEXIST"

\* Which open the write path uses: only writeGitObject truncates (os.Create).
OpensTruncating(via) == via = "writeGitObject"

IdleProc ==
    [pc |-> "idle", via |-> "none", obj |-> 0, off |-> 0, mkerr |-> "none",
     sha |-> 0, err |-> "none", had |-> NoFile]

StoreInit ==
    /\ dirs = {}
    /\ files = [x \in ObjIds |-> NoFile]
    /\ proc = [p \in Procs |-> IdleProc]

\* Puts are numbered in the order they begin.
NextToBegin(p) ==
    /\ proc[p].pc = "idle"
    /\ \A q \in Procs : q < p => proc[q].pc # "idle"

\* No put is in progress.
Quiescent == \A q \in Procs : proc[q].pc \in {"idle", "done"}

Begin(p, via, x, first) ==
    /\ NextToBegin(p)
    \* had: the file as the put found it (history, read by the properties only)
    /\ proc' = [proc EXCEPT ![p] = [IdleProc EXCEPT !.pc = first, !.via = via,
                                       !.obj = x, !.had = files[x]]]
    /\ UNCHANGED <<dirs, files>>

Return(p, sha, err) ==
    proc' = [proc EXCEPT ![p].pc = "done", ![p].sha = sha, ![p].err = err]

(***************************************************************************)
(* writeObject(header, content): used by write-tree and commit-tree.       *)
(***************************************************************************)
writeObject_Begin(p, x) == Begin(p, "writeObject", x, "stat")

\* if _, err := os.Stat(path); !os.IsNotExist(err) { return sha, err }
writeObject_Stat(p) ==
    /\ proc[p].pc = "stat" /\ proc[p].via = "writeObject"
    /\ IF files[proc[p].obj].exists
          THEN Return(p, proc[p].obj, "nil")
          ELSE proc' = [proc EXCEPT ![p].pc = "mkdir"]
    /\ UNCHANGED <<dirs, files>>

\* os.Mkdir(filepath.Dir(path), 0750)
writeObject_Mkdir(p) ==
    /\ proc[p].pc = "mkdir" /\ proc[p].via = "writeObject"
    /\ LET d == ShaPrefix(proc[p].obj)
           e == MkdirErr(d)
       IN  /\ dirs' = dirs \cup {d}
           /\ IF WriteObjectMkdirFails(e)
                 THEN proc' = [proc EXCEPT ![p].pc = "done", ![p].mkerr = e,
                                             ![p].sha = proc[p].obj, ![p].err = e]
                 ELSE proc' = [proc EXCEPT ![p].pc = "open", ![p].mkerr = e]
    /\ UNCHANGED files

(***************************************************************************)
(* hashObjectCmd: hash-object -w writes the blob with its own code.        *)
(***************************************************************************)
hashObjectCmd_Begin(p, x) == Begin(p, "hashObject", x, "stat")

\* if _, err := os.Stat(objectDir); errors.Is(err, os.ErrNotExist) { MkdirAll }
hashObjectCmd_StatDir(p) ==
    /\ proc[p].pc = "stat" /\ proc[p].via = "hashObject"
    /\ proc' = [proc EXCEPT ![p].pc =
                   IF ShaPrefix(proc[p].obj) \in dirs THEN "open" ELSE "mkdir"]
    /\ UNCHANGED <<dirs, files>>

\* os.MkdirAll: an existing directory is no error.
MkdirAll(p) ==
    /\ proc[p].pc = "mkdir" /\ proc[p].via \in {"hashObject", "writeGitObject"}
    /\ dirs' = dirs \cup {ShaPrefix(proc[p].obj)}
    /\ proc' = [proc EXCEPT ![p].pc = "open", ![p].mkerr = "nil"]
    /\ UNCHANGED files

(***************************************************************************)
(* writeGitObject(repoPath, object): used by clone (writeFetchedObjects).  *)
(***************************************************************************)
writeGitObject_Begin(p, x) == Begin(p, "writeGitObject", x, "mkdir")

(***************************************************************************)
(* The steps the write paths share: open, write, close.                    *)
(***************************************************************************)
\* os.OpenFile(path, O_CREATE|O_WRONLY, 0644) / os.Create(objectFilePath)
Open(p) ==
    /\ proc[p].pc = "open"
    /\ files' = [files EXCEPT ![proc[p].obj] = OpenFile(@, OpensTruncating(proc[p].via))]
    /\ proc' = [proc EXCEPT ![p].pc = "write", ![p].off = 0]
    /\ UNCHANGED dirs

\* One write call of the zlib writer reaching the file.
Write(p) ==
    /\ proc[p].pc = "write" /\ proc[p].off < NChunks
    /\ files' = [files EXCEPT ![proc[p].obj] =
                    WriteAt(@, proc[p].off, Compressed(proc[p].obj)[proc[p].off + 1])]
    /\ proc' = [proc EXCEPT ![p].off = @ + 1]
    /\ UNCHANGED dirs

\* writer.Close(); object.Close(); return sha, nil
Close(p) ==
    /\ proc[p].pc = "write" /\ proc[p].off = NChunks
    /\ Return(p, proc[p].obj, "nil")
    /\ UNCHANGED <<dirs, files>>

\* A write call fails (disk full, I/O error) or the process is interrupted:
\* the write path returns its error and leaves the file as it is.
\* writeObject returns (sha, err), writeGitObject ("", err).
WriteFail(p) ==
    /\ proc[p].pc = "write" /\ proc[p].off < NChunks
    /\ Return(p, IF proc[p].via = "writeGitObject" THEN 0 ELSE proc[p].obj, "EIO")
    /\ UNCHANGED <<dirs, files>>

(***************************************************************************)
(* Clone: objects, the packfile, the pack reader, the disk.                *)
(*                                                                         *)
(* An Object is held parsed: Type is the pack's type code, and the body    *)
(* Buf is given by data (a blob's bytes), tree (a commit's "tree <sha>")   *)
(* and children (a tree's entries).                                        *)
(***************************************************************************)
objCommit == 1
objTree == 2
objBlob == 3
objTag == 4
objOfsDelta == 6
objRefDelta == 7

\* entries in one packfile
MaxEntries == 3

Obj(t, data, tree, children) ==
    [Type |-> t, data |-> data, tree |-> tree, children |-> children]

TreeChild(mode, name, sha) == [mode |-> mode, name |-> name, sha |-> sha]

\* The objects of the remote repository. The index of an object in Universe
\* stands for the SHA-1 of its framed bytes (collision-free).
\*   1: blob b1   2: blob b2 = b1 + "!"   3: tree {a.txt -> b1}
\*   4: commit of tree 3   5: blob b3 = b2 + "?"
Universe ==
    << Obj(objBlob, <<1>>, 0, <<>>),
       Obj(objBlob, <<1, 2>>, 0, <<>>),
       Obj(objTree, <<>>, 0, <<TreeChild(<<1, 0, 0, 6, 4, 4>>, "a.txt", 1)>>),
       Obj(objCommit, <<>>, 3, <<>>),
       Obj(objBlob, <<1, 2, 3>>, 0, <<>>) >>

Shas == 1..Len(Universe)

\* The identifier the remote advertises for HEAD.
HeadSha == 4

\* (o *Object) typeString
typeString(o) ==
    CASE o.Type = objCommit -> "commit"
      [] o.Type = objTree -> "tree"
      [] o.Type = objBlob -> "blob"
      [] OTHER -> "Invalid type"

\* (o *Object) sha: sha1.Sum(wrappedBuf), the identifier of the framed
\* object; 0 with the error of typeString.
sha(o) ==
    IF typeString(o) = "Invalid type" THEN 0
    ELSE CHOOSE i \in Shas : Universe[i] = o

\* The length of a body (len(o.Buf)).
BufLen(o) == Len(o.data) + (IF o.tree # 0 THEN 1 ELSE 0) + Len(o.children)

\* A pack entry: the type and size of its header, the base identifier of a
\* ref-delta, and what its DEFLATE stream inflates to: a body (obj), or for
\* a ref-delta the literal bytes its instructions insert after a copy of the
\* whole base (ins).
Entry(t, size, base, obj, ins) ==
    [type |-> t, size |-> size, base |-> base, obj |-> obj, ins |-> ins]

NoObj == Obj(0, <<>>, 0, <<>>)

PlainEntry(i) == Entry(Universe[i].Type, BufLen(Universe[i]), 0, Universe[i], <<>>)

EntrySet ==
    { PlainEntry(i) : i \in {1, 3, 4} }
    \cup { Entry(objRefDelta, 3, 1, NoObj, <<2>>),
           Entry(objRefDelta, 3, 2, NoObj, <<3>>),
           Entry(objOfsDelta, 3, 0, NoObj, <<>>),
           Entry(objBlob, 2, 0, Universe[1], <<>>),
           Entry(objTag, 1, 0, Obj(objTag, <<1>>, 0, <<>>), <<>>),
           Entry(5, 1, 0, Obj(5, <<1>>, 0, <<>>), <<>>) }

RECURSIVE SeqsUpTo(_, _)
SeqsUpTo(S, n) ==
    IF n = 0 THEN {<<>>}
    ELSE LET shorter == SeqsUpTo(S, n - 1)
         IN  shorter \cup { Append(q, e) : q \in shorter, e \in S }

\* packfileBuf: sign, version, numObjects, the entries, and whether the
\* trailing 20 bytes are the SHA-1 of the bytes before them.
Packs ==
    { [sign |-> sg, version |-> v, numObjects |-> Len(es), entries |-> es,
       trailerOk |-> ok] :
        sg \in {"PACK", "JUNK"}, v \in {1, 2}, es \in SeqsUpTo(EntrySet, MaxEntries),
        ok \in BOOLEAN }

\* path.Join(a, b) on paths held as sequences of names; "." joins to nothing.
Join(a, b) == SelectSeq(a \o b, LAMBDA n : n # ".")

EmptyMap == [k \in {} |-> 0]

Put(m, k, v) == [x \in DOMAIN m \cup {k} |-> IF x = k THEN v ELSE m[x]]

\* os.MkdirAll(path): the directory and every missing parent.
MkdirAllDirs(ds, path) == ds \cup { SubSeq(path, 1, n) : n \in 0..Len(path) }

\* The disk before the command: only the working directory exists. dirs
\* are the directories, text the HEAD and ref files, objs the object files,
\* partial those of them whose content is not completely written, work the
\* files of the working tree.
EmptyDisk ==
    [dirs |-> {<<>>}, text |-> EmptyMap, objs |-> {}, partial |-> {}, work |-> EmptyMap]

CloneInit ==
    /\ cl \in [pc : {"mkdir"}, dir : {".", "repo"}, commitSha : {0}, rd : {0},
               logged : {{}}, visited : {{}}, exitCode : {-1}, err : {"none"}]
    /\ pack \in Packs
    /\ shaToObj = EmptyMap
    /\ fsys = EmptyDisk

\* repoPath := path.Join(".", directory)
repoPath == Join(<<".">>, <<cl.dir>>)

\* return &Status{exitCode: ExitCodeError, err: ...}
CloneFails(e) == cl' = [cl EXCEPT !.pc = "done", !.exitCode = 1, !.err = e]

\* os.MkdirAll(repoPath, 0750)
cloneCmd_MkdirAll ==
    /\ cl.pc = "mkdir"
    /\ fsys' = [fsys EXCEPT !.dirs = MkdirAllDirs(@, repoPath)]
    /\ cl' = [cl EXCEPT !.pc = "init"]
    /\ UNCHANGED <<pack, shaToObj>>

\* Where initCmd(path) works: its argument is never read, the directories
\* and HEAD are named relative to the working directory.
initCmdRoot(path) == <<>>

\* The disk after initCmd(path): MkdirAll .git, .git/objects, .git/refs;
\* write .git/HEAD.
initCmdDisk(fs, path) ==
    LET root == initCmdRoot(path)
        made == MkdirAllDirs(MkdirAllDirs(fs.dirs, Join(root, <<".git", "objects">>)),
                             Join(root, <<".git", "refs">>))
    IN  [fs EXCEPT !.dirs = made,
                   !.text = Put(@, Join(root, <<".git", "HEAD">>), "ref: refs/heads/master\n")]

\* initCmd(repoPath)
cloneCmd_initCmd ==
    /\ cl.pc = "init"
    /\ fsys' = initCmdDisk(fsys, repoPath)
    /\ cl' = [cl EXCEPT !.pc = "head"]
    /\ UNCHANGED <<pack, shaToObj>>

\* fetchLatestCommitHash: the identifier of the first advertised ref.
cloneCmd_fetchLatestCommitHash ==
    /\ cl.pc = "head"
    /\ cl' = [cl EXCEPT !.pc = "ref", !.commitSha = HeadSha]
    /\ UNCHANGED <<pack, shaToObj, fsys>>

\* The 40 hex characters of an identifier, as written to a ref file.
Hex(id) == ToString(id)

\* path.Join(repoPath, ".git", "refs", "heads", branch)
RefFilePath(rp) == Join(rp, <<".git", "refs", "heads", "master">>)

\* writeBranchRefFile leaving the disk as it is.
writeBranchRefFileSkipped(fs, rp, content) == fs

\* The disk after writeBranchRefFile(rp, "master", commitSha) wrote content.
writeBranchRefFileDisk(fs, rp, content) ==
    [fs EXCEPT !.dirs = MkdirAllDirs(@, SubSeq(RefFilePath(rp), 1, Len(RefFilePath(rp)) - 1)),
               !.text = Put(@, RefFilePath(rp), content)]

\* writeBranchRefFile(repoPath, "master", commitSha)
cloneCmd_writeBranchRefFile ==
    /\ cl.pc = "ref"
    /\ fsys' = writeBranchRefFileDisk(fsys, repoPath, Hex(cl.commitSha))
    /\ cl' = [cl EXCEPT !.pc = "fetch"]
    /\ UNCHANGED <<pack, shaToObj>>

(***************************************************************************)
(* fetchObjects and readObject.                                            *)
(***************************************************************************)
\* fetchObjects up to its loop: sign, version and numObjects are read and
\* logged; the checksum is compared, and a mismatch is logged.
cloneCmd_fetchObjects_Header ==
    /\ cl.pc = "fetch"
    /\ cl' = [cl EXCEPT !.pc = "read", !.rd = 0,
                        !.logged = IF pack.trailerOk THEN {} ELSE {"expected checksum"}]
    /\ UNCHANGED <<pack, shaToObj, fsys>>

\* saveObj(o): shaToObj[o.sha()] = *o, or the error of typeString.
saveObj(m, o) ==
    IF sha(o) = 0 THEN [err |-> "Invalid type", map |-> m]
    ELSE [err |-> "nil", map |-> Put(m, sha(o), o)]

\* readDeltified(decompressed, &baseObj) for a delta that copies the whole
\* base and then inserts ins; the Object made of it has the base's Type.
readDeltified(ins, baseObj) == [baseObj EXCEPT !.data = @ \o ins]

\* readObject with the deltified object recorded under the base's identifier.
readObjectKeyedByBase(m, e) ==
    IF e.type = objRefDelta THEN
        IF e.base \notin DOMAIN m THEN [err |-> "Unknown obj sha", map |-> m]
        ELSE [err |-> "nil", map |-> Put(m, e.base, readDeltified(e.ins, m[e.base]))]
    ELSE IF e.type = objOfsDelta THEN [err |-> "Unsupported", map |-> m]
    ELSE IF e.size # BufLen(e.obj) THEN [err |-> "Expected obj len", map |-> m]
    ELSE saveObj(m, [e.obj EXCEPT !.Type = e.type])

\* readObject with an ofs-delta entry passed over.
readObjectSkipsOfsDelta(m, e) ==
    IF e.type = objRefDelta THEN
        IF e.base \notin DOMAIN m THEN [err |-> "Unknown obj sha", map |-> m]
        ELSE saveObj(m, readDeltified(e.ins, m[e.base]))
    ELSE IF e.type = objOfsDelta THEN [err |-> "nil", map |-> m]
    ELSE IF e.size # BufLen(e.obj) THEN [err |-> "Expected obj len", map |-> m]
    ELSE saveObj(m, [e.obj EXCEPT !.Type = e.type])

\* readObject on entry e with the session map m: the error and the map after.
readObject(m, e) ==
    IF e.type = objRefDelta THEN
        IF e.base \notin DOMAIN m THEN [err |-> "Unknown obj sha", map |-> m]
        ELSE LET baseObj == m[e.base]
             IN  saveObj(m, readDeltified(e.ins, baseObj))
    ELSE IF e.type = objOfsDelta THEN [err |-> "Unsupported", map |-> m]
    ELSE IF e.size # BufLen(e.obj) THEN [err |-> "Expected obj len", map |-> m]
    ELSE saveObj(m, [e.obj EXCEPT !.Type = e.type])

\* One turn of the loop with the object file written as soon as it is read.
cloneCmd_fetchObjects_readObjectStoring ==
    /\ cl.pc = "read"
    /\ IF cl.rd >= Len(pack.entries)
          THEN CloneFails("zlib: invalid header") /\ UNCHANGED <<shaToObj, fsys>>
          ELSE LET r == readObject(shaToObj, pack.entries[cl.rd + 1])
               IN  IF r.err # "nil"
                      THEN CloneFails(r.err) /\ UNCHANGED <<shaToObj, fsys>>
                      ELSE /\ shaToObj' = r.map
                           /\ fsys' = [fsys EXCEPT !.objs =
                                 @ \cup { Join(repoPath, <<".git", "objects", ToString(ShaPrefix(k)), Hex(k)>>) :
                                          k \in DOMAIN r.map }]
                           /\ cl' = [cl EXCEPT !.rd = @ + 1,
                                      !.pc = IF cl.rd + 1 = Len(pack.entries)
                                                THEN "write" ELSE "read"]
    /\ UNCHANGED pack

\* One turn of the loop of fetchObjects: readObject, then the test of what
\* is left of the buffer. The loop reads before it tests, so with no entry
\* left at its first turn it reads the trailer as an entry; the trailer of
\* an empty pack is no entry (its zlib header is invalid).
cloneCmd_fetchObjects_readObject ==
    /\ cl.pc = "read"
    /\ IF cl.rd >= Len(pack.entries)
          THEN CloneFails("zlib: invalid header") /\ UNCHANGED shaToObj
          ELSE LET r == readObject(shaToObj, pack.entries[cl.rd + 1])
               IN  IF r.err # "nil"
                      THEN CloneFails(r.err) /\ UNCHANGED shaToObj
                      ELSE /\ shaToObj' = r.map
                           /\ cl' = [cl EXCEPT !.rd = @ + 1,
                                      !.pc = IF cl.rd + 1 = Len(pack.entries)
                                                THEN "write" ELSE "read"]
    /\ UNCHANGED <<pack, fsys>>

(***************************************************************************)
(* writeFetchedObjects and writeGitObject.                                 *)
(***************************************************************************)
\* path.Join(repoPath, ".git", "objects", blobSha[:2], blobSha[2:])
objectFilePath(rp, id) ==
    Join(rp, <<".git", "objects", ToString(ShaPrefix(id)), Hex(id)>>)

\* writeGitObject with an object file that exists left as it is.
PartialKept(partial, objFile) == partial

\* writeGitObject: os.Create truncates the object file, Write and Close
\* write all of it: whatever the file held, it is complete afterwards.
PartialAfterWriteGitObject(partial, objFile) == partial \ {objFile}

\* The disk after writeGitObject(rp, object) for the object named id.
writeGitObjectDisk(fs, rp, id) ==
    LET objFile == objectFilePath(rp, id)
    IN  [fs EXCEPT !.dirs = MkdirAllDirs(@, SubSeq(objFile, 1, Len(objFile) - 1)),
                   !.objs = @ \cup {objFile},
                   !.partial = PartialAfterWriteGitObject(@, objFile)]

\* One turn of `for _, object := range shaToObj`: writeGitObject.
cloneCmd_writeFetchedObjects_Object ==
    /\ cl.pc = "write"
    /\ \E k \in DOMAIN shaToObj \ cl.visited :
          /\ fsys' = writeGitObjectDisk(fsys, repoPath, sha(shaToObj[k]))
          /\ cl' = [cl EXCEPT !.visited = @ \cup {k}]
    /\ UNCHANGED <<pack, shaToObj>>

cloneCmd_writeFetchedObjects_Return ==
    /\ cl.pc = "write"
    /\ cl.visited = DOMAIN shaToObj
    /\ cl' = [cl EXCEPT !.pc = "restore"]
    /\ UNCHANGED <<pack, shaToObj, fsys>>

(***************************************************************************)
(* restoreRepository and traverseTree.                                     *)
(***************************************************************************)
\* isBlob: strings.HasPrefix(mode, "100")
isBlob(mode) == Len(mode) >= 3 /\ SubSeq(mode, 1, 3) = <<1, 0, 0>>

RECURSIVE ParseOctal(_)
ParseOctal(ds) ==
    IF ds = <<>> THEN 0 ELSE 8 * ParseOctal(SubSeq(ds, 1, Len(ds) - 1)) + ds[Len(ds)]

\* getPerm: strconv.ParseInt(mode[3:], 8, 64)
getPerm(mode) == ParseOctal(SubSeq(mode, 4, Len(mode)))

\* readObjectContent can open the object file and inflate all of it.
Stored(fs, rp, id) ==
    /\ id \in Shas
    /\ objectFilePath(rp, id) \in fs.objs
    /\ objectFilePath(rp, id) \notin fs.partial

RECURSIVE traverseTree(_, _, _, _)
RECURSIVE traverseChildren(_, _, _, _, _)
\* The loop of traverseTree over tree.children, from child i on.
traverseChildren(fs, rp, curDir, children, i) ==
    IF i > Len(children) THEN [err |-> "nil", fs |-> fs]
    ELSE LET child == children[i]
         IN  IF isBlob(child.mode)
             THEN IF ~Stored(fs, rp, child.sha) THEN [err |-> "ENOENT", fs |-> fs]
                  ELSE LET filePath == Join(rp, curDir \o <<child.name>>)
                           written == [fs EXCEPT
                               !.dirs = MkdirAllDirs(@, SubSeq(filePath, 1, Len(filePath) - 1)),
                               !.work = Put(@, filePath,
                                            [data |-> Universe[child.sha].data,
                                             perm |-> getPerm(child.mode)])]
                       IN  traverseChildren(written, rp, curDir, children, i + 1)
             ELSE LET r == traverseTree(fs, rp, curDir \o <<child.name>>, child.sha)
                  IN  IF r.err # "nil" THEN r
                      ELSE traverseChildren(r.fs, rp, curDir, children, i + 1)

\* traverseTree(repoPath, curDir, treeSha): the error and the disk after.
traverseTree(fs, rp, curDir, treeSha) ==
    IF ~Stored(fs, rp, treeSha) THEN [err |-> "ENOENT", fs |-> fs]
    ELSE traverseChildren(fs, rp, curDir, Universe[treeSha].children, 1)

\* restoreRepository(repoPath, commitSha)
restoreRepository(fs, rp, commitSha) ==
    IF ~Stored(fs, rp, commitSha) THEN [err |-> "ENOENT", fs |-> fs]
    ELSE IF Universe[commitSha].Type # objCommit
         THEN [err |-> "Invalid commit blob", fs |-> fs]
         ELSE traverseTree(fs, rp, <<>>, Universe[commitSha].tree)

cloneCmd_restoreRepository ==
    /\ cl.pc = "restore"
    /\ LET r == restoreRepository(fsys, repoPath, cl.commitSha)
       IN  /\ fsys' = r.fs
           /\ IF r.err # "nil" THEN CloneFails(r.err)
              ELSE cl' = [cl EXCEPT !.pc = "done", !.exitCode = 0, !.err = "nil"]
    /\ UNCHANGED <<pack, shaToObj>>

(***************************************************************************)
(* clone into a directory that already holds a repository.                 *)
(***************************************************************************)
\* The identifier of the object the store holds before the clone: blob b1.
ExistingSha == 1

\* The disk before the command: the object store below rp holds one object.
ExistingDisk(rp) ==
    LET objFile == objectFilePath(rp, ExistingSha)
    IN  [EmptyDisk EXCEPT !.dirs = MkdirAllDirs(@, SubSeq(objFile, 1, Len(objFile) - 1)),
                          !.objs = {objFile}]

CloneExistingInit ==
    /\ cl \in [pc : {"mkdir"}, dir : {".", "repo"}, commitSha : {0}, rd : {0},
               logged : {{}}, visited : {{}}, exitCode : {-1}, err : {"none"}]
    /\ pack \in Packs
    /\ shaToObj = EmptyMap
    /\ fsys = ExistingDisk(repoPath)

(***************************************************************************)
(* main, run and the argument handling of the command handlers.            *)
(***************************************************************************)
ExitCodeOK == 0
ExitCodeError == 1
\* The exit code of the Go runtime after an uncaught panic.
ExitCodePanic == 2

\* arguments after the command name
MaxArgs == 5

\* The command names os.Args[1] is drawn from.
CommandNames ==
    {"init", "cat-file", "hash-object", "ls-tree", "write-tree", "commit-tree", "clone",
     "status"}

RECURSIVE Repeat(_, _)
Repeat(x, n) == IF n = 0 THEN <<>> ELSE Append(Repeat(x, n - 1), x)

\* os.Args of the runs considered: the program name alone, or a command name
\* and up to MaxArgs arguments.
ArgvSet ==
    {<<"mygit">>} \cup
    { <<"mygit", c>> \o Repeat("arg", n) : c \in CommandNames, n \in 0..MaxArgs }

CliInit ==
    cli \in [pc : {"main"}, argv : ArgvSet, handler : {"none"},
                result : {[exitCode |-> -1, err |-> "none"]},
                status : {[exitCode |-> -1, err |-> "none"]},
                exit : {-1}, stderr : {"none"}]

\* main: if len(os.Args) < 2 { usage; os.Exit(1) }, else run(os.Args[1:])
main_Enter ==
    /\ cli.pc = "main"
    /\ IF Len(cli.argv) < 2
          THEN cli' = [cli EXCEPT !.pc = "exit", !.exit = 1, !.stderr = "usage"]
          ELSE cli' = [cli EXCEPT !.pc = "run"]

\* The switch of run on os.Args[1]: the handler called, "default" for none.
runSwitch(command) ==
    CASE command = "init" -> "initCmd"
      [] command = "cat-file" -> "catFileCmd"
      [] command = "hash-object" -> "hashObjectCmd"
      [] command = "ls-tree" -> "lsTreeCmd"
      [] command = "write-tree" -> "writeTreeCmd"
      [] command = "commit-tree" -> "createCommitCmd"
      [] OTHER -> "default"

\* run: switch command := os.Args[1]
run_Switch ==
    /\ cli.pc = "run"
    /\ LET h == runSwitch(cli.argv[2])
       IN  IF h = "default"
              THEN cli' = [cli EXCEPT !.pc = "main_return", !.handler = h,
                              !.status = [exitCode |-> ExitCodeError, err |-> "unknown command"]]
              ELSE cli' = [cli EXCEPT !.pc = "handler", !.handler = h]

\* The start of a handler: `if len(os.Args) < least` returns the usage
\* Status; then os.Args[i] is read for every i of uses, and an index beyond
\* the slice panics (index out of range).
ArgsOutcome(least, uses, n) ==
    IF n < least THEN "usage"
    ELSE IF \E i \in uses : i >= n THEN "panic"
    ELSE "body"

\* A handler that got through its arguments runs its body, which returns
\* Status{ExitCodeOK, nil} or Status{ExitCodeError, err}.
Handler(name, least, uses) ==
    /\ cli.pc = "handler" /\ cli.handler = name
    /\ LET a == ArgsOutcome(least, uses, Len(cli.argv))
       IN  CASE a = "usage" ->
                  cli' = [cli EXCEPT !.pc = "run_return",
                            !.result = [exitCode |-> ExitCodeError, err |-> "usage"]]
             [] a = "panic" ->
                  cli' = [cli EXCEPT !.pc = "exit", !.exit = ExitCodePanic,
                            !.stderr = "panic: index out of range"]
             [] OTHER ->
                  \E r \in {[exitCode |-> ExitCodeOK, err |-> "nil"],
                            [exitCode |-> ExitCodeError, err |-> "error"]} :
                      cli' = [cli EXCEPT !.pc = "run_return", !.result = r]

initCmd == Handler("initCmd", 0, {})

\* if len(os.Args) < 3 {...}; fullSha := os.Args[3]
catFileCmd == Handler("catFileCmd", 3, {3})

\* if len(os.Args) < 3 {...}; filePath := os.Args[3]
hashObjectCmd == Handler("hashObjectCmd", 3, {3})

\* if len(os.Args) < 3 {...}; fullSha := os.Args[3]
lsTreeCmd == Handler("lsTreeCmd", 3, {3})

writeTreeCmd == Handler("writeTreeCmd", 0, {})

\* if len(os.Args) < 3 {...}; os.Args[2], os.Args[4], os.Args[6]
createCommitCmd == Handler("createCommitCmd", 3, {2, 4, 6})

\* run: return &Status{exitCode: result.exitCode, err: result.err}
run_Return ==
    /\ cli.pc = "run_return"
    /\ cli' = [cli EXCEPT !.pc = "main_return", !.status = cli.result]

\* main: if status.err != nil { print it to stderr; os.Exit(1) }
main_Exit ==
    /\ cli.pc = "main_return"
    /\ IF cli.status.err # "nil"
          THEN cli' = [cli EXCEPT !.pc = "exit", !.exit = 1, !.stderr = cli.status.err]
          ELSE cli' = [cli EXCEPT !.pc = "exit", !.exit = 0]

(***************************************************************************)
(* Bytes. A byte string is a sequence of byte values.                      *)
(***************************************************************************)
\* "\x00" and " "
NUL == 0
SP == 32

\* fmt.Sprintf("%d", n) for n >= 0
RECURSIVE Decimal(_)
Decimal(n) == IF n < 10 THEN <<48 + n>> ELSE Append(Decimal(n \div 10), 48 + (n % 10))

\* The position of the first byte b of s, 0 if there is none.
IndexByte(s, b) ==
    IF \E i \in 1..Len(s) : s[i] = b
       THEN CHOOSE i \in 1..Len(s) : s[i] = b /\ \A j \in 1..(i - 1) : s[j] # b
       ELSE 0

\* strings.Split(s, sep) for a separator of one byte: the pieces between the
\* separators, in order; one piece more than there are separators.
RECURSIVE Split(_, _)
Split(s, sep) ==
    LET i == IndexByte(s, sep)
    IN  IF i = 0 THEN <<s>>
        ELSE <<SubSeq(s, 1, i - 1)>> \o Split(SubSeq(s, i + 1, Len(s)), sep)

\* "blob" and "tree" in ASCII
BlobTag == <<98, 108, 111, 98>>
TreeTag == <<116, 114, 101, 101>>

\* fmt.Sprintf("%s %d\x00", type, len(body)) followed by the body
Framed(tag, body) == tag \o <<SP>> \o Decimal(Len(body)) \o <<NUL>> \o body

\* zlib.NewWriter(f).Write(b); Close(): the compressed stream, and
\* zlib.NewReader(f) read to its end. Compression is lossless.
Deflate(b) == [zlib |-> b]
Inflate(z) == z.zlib

(***************************************************************************)
(* hash-object -w <file>, then cat-file -p <id>.                           *)
(***************************************************************************)
\* longest file content
MaxLen == 3

\* The byte values file contents are drawn from: NUL, '\n', 'a'.
ContentBytes == {NUL, 10, 97}

BlobInit ==
    bl \in [pc : {"start"}, content : SeqsUpTo(ContentBytes, MaxLen),
            hash : {<<>>}, objects : {EmptyMap}, out : {<<>>}]

\* createHash(content): the SHA-1 of "blob <len>\0" + content, here the
\* hashed bytes themselves (identifiers are collision-free).
createHash(content) == Framed(BlobTag, content)

\* hashObjectCmd: read the file, print the hash, write header and content
\* through a zlib writer to .git/objects/<hash[:2]>/<hash[2:]>.
hashObjectCmd_Run ==
    /\ bl.pc = "start"
    /\ LET hash == createHash(bl.content)
           header == BlobTag \o <<SP>> \o Decimal(Len(bl.content)) \o <<NUL>>
       IN  bl' = [bl EXCEPT !.pc = "hashed", !.hash = hash,
                            !.objects = Put(@, hash, Deflate(header \o bl.content))]

\* catObject(sha): os.ReadFile(objectPath(sha)), inflated.
catObject(objects, id) == Inflate(objects[id])

\* What cat-file prints: strings.Split(objectContent.String(), "\x00")[1]
catFileOutput(objectContent) == Split(objectContent, NUL)[2]

\* catFileCmd on the identifier hash-object printed.
catFileCmd_Run ==
    /\ bl.pc = "hashed"
    /\ bl' = [bl EXCEPT !.pc = "printed",
                        !.out = catFileOutput(catObject(bl.objects, bl.hash))]

(***************************************************************************)
(* ls-tree --name-only <id> on a stored tree object.                       *)
(***************************************************************************)
\* entries of one tree
MaxTreeEntries == 2

\* The length of a raw identifier in a tree entry.
RawIdLen == 20

\* "100644"
ModeFile == <<49, 48, 48, 54, 52, 52>>

\* Entry names: "a", "b", "a b".
TreeNames == {<<97>>, <<98>>, <<97, SP, 98>>}

\* Raw identifiers: without a NUL or a space byte, with a NUL, with a space.
RawIdWith(b) == [i \in 1..RawIdLen |-> IF i = 5 THEN b ELSE 120]
RawIds == {RawIdWith(120), RawIdWith(NUL), RawIdWith(SP)}

TreeEntries == [mode : {ModeFile}, name : TreeNames, id : RawIds]

\* A tree names each of its entries once.
DistinctNames(es) == \A i, j \in 1..Len(es) : i # j => es[i].name # es[j].name

LsTreeInit ==
    lt \in [pc : {"start"},
            entries : {es \in SeqsUpTo(TreeEntries, MaxTreeEntries) : DistinctNames(es)},
            object : {<<>>}, out : {<<>>}]

\* The body of a tree: mode SP name NUL raw_id, entry after entry.
RECURSIVE TreeBody(_)
TreeBody(es) ==
    IF es = <<>> THEN <<>>
    ELSE es[1].mode \o <<SP>> \o es[1].name \o <<NUL>> \o es[1].id \o TreeBody(Tail(es))

\* The tree object is in the store: "tree <len>\0" and the body, compressed.
StoreTree ==
    /\ lt.pc = "start"
    /\ lt' = [lt EXCEPT !.pc = "stored",
                        !.object = Deflate(Framed(TreeTag, TreeBody(lt.entries)))]

\* Byte-wise order of strings (sort.Strings).
StringLess(a, b) ==
    \E k \in 0..Len(a) :
        /\ k <= Len(b)
        /\ \A i \in 1..k : a[i] = b[i]
        /\ IF k = Len(a) THEN k < Len(b) ELSE k < Len(b) /\ a[k + 1] < b[k + 1]

RECURSIVE Insert(_, _)
Insert(sorted, x) ==
    IF sorted = <<>> THEN <<x>>
    ELSE IF StringLess(x, sorted[1]) THEN <<x>> \o sorted
    ELSE <<sorted[1]>> \o Insert(Tail(sorted), x)

\* sort.Strings(result)
RECURSIVE SortStrings(_)
SortStrings(ss) ==
    IF ss = <<>> THEN <<>> ELSE Insert(SortStrings(SubSeq(ss, 1, Len(ss) - 1)), ss[Len(ss)])

\* The loop of lsTreeCmd: of every piece between NULs but the first and the
\* last, the part after its last space.
lsTreeNames(objectContent) ==
    LET fileContentlist == Tail(Split(objectContent, NUL))
    IN  [i \in 1..(Len(fileContentlist) - 1) |->
            LET temp == Split(fileContentlist[i], SP) IN temp[Len(temp)]]

\* lsTreeCmd: the lines printed, one name a line.
lsTreeCmd_Run ==
    /\ lt.pc = "stored"
    /\ lt' = [lt EXCEPT !.pc = "printed",
                        !.out = SortStrings(lsTreeNames(Inflate(lt.object)))]

(***************************************************************************)
(* write-tree: WriteTreeObject and WriteBlobObject on a working directory. *)
(*                                                                         *)
(* A stored object is named by its framed bytes, held parsed (identifiers  *)
(* are collision-free): <<"blob", content>> or <<"tree", entries>>, an     *)
(* entry being <<mode, name, sha>>.                                        *)
(***************************************************************************)
\* File names: "a", "a.txt", "c", ".git"; '/' is byte 47.
NameA == <<97>>
NameATxt == <<97, 46, 116, 120, 116>>
NameC == <<99>>
NameGit == <<46, 103, 105, 116>>
Slash == <<47>>

\* A node of the working directory: what os.ReadDir / entry.Type() / 
\* ioutil.ReadFile see of it.
Node(kind, content, readable, children) ==
    [kind |-> kind, content |-> content, readable |-> readable, children |-> children]

RegularFiles == { Node("regular", <<1>>, r, EmptyMap) : r \in BOOLEAN }
Symlinks == { Node("symlink", <<>>, TRUE, EmptyMap) }

\* Every function from a subset of the names ns to the nodes of S.
Listings(ns, S) == UNION { [d -> S] : d \in SUBSET ns }

SubDirs == { Node("dir", <<>>, TRUE, l) : l \in Listings({NameC}, RegularFiles) }

\* The working directories considered: at the root a directory "a", a file
\* or symbolic link "a.txt", a directory ".git", each present or not.
WorkDirs ==
    { [n \in DOMAIN a \cup DOMAIN t \cup DOMAIN g |->
          IF n \in DOMAIN a THEN a[n] ELSE IF n \in DOMAIN t THEN t[n] ELSE g[n]] :
        a \in Listings({NameA}, SubDirs),
        t \in Listings({NameATxt}, RegularFiles \cup Symlinks),
        g \in Listings({NameGit}, {Node("dir", <<>>, TRUE, EmptyMap)}) }

\* var sha [20]byte before any assignment
ZeroSha == <<"zero", <<>>>>

\* sha1.Sum(header + content) of writeObject
BlobSha(content) == <<"blob", content>>
TreeSha(treeBuffer) == <<"tree", treeBuffer>>

\* The children of the directory at path dir of the working directory w.
RECURSIVE ChildrenAt(_, _)
ChildrenAt(w, dir) ==
    IF dir = <<>> THEN w ELSE ChildrenAt(w, SubSeq(dir, 1, Len(dir) - 1))[dir[Len(dir)]].children

\* The names of a set of names as a sequence, in any order.
RECURSIVE SeqOfSet(_)
SeqOfSet(S) ==
    IF S = {} THEN <<>> ELSE LET x == CHOOSE x \in S : TRUE IN <<x>> \o SeqOfSet(S \ {x})

\* os.ReadDir(dir): the entries of the directory sorted by filename.
ReadDir(w, dir) == SortStrings(SeqOfSet(DOMAIN ChildrenAt(w, dir)))

\* The frame of one call of WriteTreeObject(dir).
Frame(w, dir) == [dir |-> dir, entries |-> ReadDir(w, dir), i |-> 1, treeBuffer |-> <<>>]

WriteTreeInit ==
    wt \in [pc : {"start"}, work : WorkDirs, stack : {<<>>}, objects : {{}},
            sha : {ZeroSha}, err : {"none"}]

\* The frame on top of the stack, and the entry its loop is at.
Top == wt.stack[Len(wt.stack)]
AtEntry == wt.pc = "run" /\ Top.i <= Len(Top.entries)
EntryName == Top.entries[Top.i]
EntryNode == ChildrenAt(wt.work, Top.dir)[EntryName]

\* treeBuffer.WriteString(fmt.Sprintf("%s%s %s\x00%s", mode, permission, name, sha))
\* and the loop moves on.
Emit(stack, mode, name, id) ==
    [stack EXCEPT ![Len(stack)] =
        [@ EXCEPT !.treeBuffer = Append(@, <<mode, name, id>>), !.i = @ + 1]]

\* writeObject(header, content): the store after it and the values it
\* returns. With stored = FALSE a step after sha1.Sum failed (os.Mkdir,
\* os.OpenFile, writer.Write): the identifier is returned with the error.
writeObject(objects, id, stored) ==
    [objects |-> IF stored THEN objects \cup {id} ELSE objects,
     sha |-> id, err |-> IF stored THEN "nil" ELSE "error"]

\* WriteBlobObject(file, mode): ioutil.ReadFile, then writeObject.
WriteBlobObject(objects, node, stored) ==
    IF ~node.readable THEN [objects |-> objects, sha |-> ZeroSha, err |-> "error"]
    ELSE writeObject(objects, BlobSha(node.content), stored)

\* writeTreeCmd calls WriteTreeObject(".")
writeTreeCmd_Call ==
    /\ wt.pc = "start"
    /\ wt' = [wt EXCEPT !.pc = "run", !.stack = <<Frame(wt.work, <<>>)>>]

\* A directory entry: ".git" is skipped, any other is written by a
\* recursive call.
WriteTreeObject_Dir ==
    /\ AtEntry /\ EntryNode.kind = "dir"
    /\ IF EntryName = NameGit
          THEN wt' = [wt EXCEPT !.stack[Len(wt.stack)].i = @ + 1]
          ELSE wt' = [wt EXCEPT !.stack = Append(@, Frame(wt.work, Top.dir \o <<EntryName>>))]

\* A regular file: sha, err = WriteBlobObject(...); err is not read.
WriteTreeObject_Regular ==
    /\ AtEntry /\ EntryNode.kind = "regular"
    /\ \E stored \in BOOLEAN :
          LET r == WriteBlobObject(wt.objects, EntryNode, stored)
          IN  wt' = [wt EXCEPT !.objects = r.objects,
                               !.stack = Emit(@, "100644", EntryName, r.sha)]

\* Neither a directory nor a regular file: mode, permission and sha keep
\* their zero values and the entry is written all the same.
WriteTreeObject_Other ==
    /\ AtEntry /\ EntryNode.kind = "symlink"
    /\ wt' = [wt EXCEPT !.stack = Emit(@, "", EntryName, ZeroSha)]

\* The end of the loop: return writeObject(header, treeBuffer.Bytes()). In
\* the caller the loop goes on with the returned sha; err is not read.
WriteTreeObject_Return ==
    /\ wt.pc = "run" /\ Top.i > Len(Top.entries)
    /\ \E stored \in BOOLEAN :
          LET r == writeObject(wt.objects, TreeSha(Top.treeBuffer), stored)
              callers == SubSeq(wt.stack, 1, Len(wt.stack) - 1)
          IN  IF callers = <<>>
                 THEN wt' = [wt EXCEPT !.pc = "done", !.stack = <<>>, !.objects = r.objects,
                                       !.sha = r.sha, !.err = r.err]
                 ELSE wt' = [wt EXCEPT !.objects = r.objects,
                               !.stack = Emit(callers, "40000", Top.dir[Len(Top.dir)], r.sha)]

(***************************************************************************)
(* The framing written by each operation, read back by readObjectContent.  *)
(***************************************************************************)
\* "commit", "tree ", "parent ", "\n"
CommitTag == <<99, 111, 109, 109, 105, 116>>
TreeLinePrefix == <<116, 114, 101, 101, 32>>
ParentLinePrefix == <<112, 97, 114, 101, 110, 116, 32>>
NewLine == <<10>>
\* "author test <dummy@example.com> " and "committer test <dummy@example.com> "
AuthorPrefix == <<97, 117, 116, 104, 111, 114, 32, 116, 101, 115, 116, 32, 60, 100, 117, 109, 109, 121, 64, 101, 120, 97, 109, 112, 108, 101, 46, 99, 111, 109, 62, 32>>
CommitterPrefix == <<99, 111, 109, 109, 105, 116, 116, 101, 114, 32, 116, 101, 115, 116, 32, 60, 100, 117, 109, 109, 121, 64, 101, 120, 97, 109, 112, 108, 101, 46, 99, 111, 109, 62, 32>>

\* fmt.Sprintf("%d %s", now.Unix(), now.Format("-0700")): "0 +0000", "1 +0900"
Timestamps == { <<48, 32, 43, 48, 48, 48, 48>>, <<49, 32, 43, 48, 57, 48, 48>> }

\* The arguments <tree_sha> and <commit_sha> of commit-tree: "t", "p".
ArgTreeSha == <<116>>
ArgParentSha == <<112>>

\* WriteCommitObject: the content built line by line.
CommitContent(treeSha, commit_sha, message, timestamp) ==
    TreeLinePrefix \o treeSha \o NewLine
    \o ParentLinePrefix \o commit_sha \o NewLine
    \o AuthorPrefix \o timestamp \o NewLine
    \o CommitterPrefix \o timestamp \o NewLine \o NewLine
    \o message \o NewLine

\* WriteCommitObject: fmt.Sprintf("commit %d\x00", len(message))
CommitHeader(message) == CommitTag \o <<SP>> \o Decimal(Len(message)) \o <<NUL>>

\* wrapContent(contents, objectType)
wrapContent(contents, objectType) == Framed(objectType, contents)

\* strconv.ParseInt(s, 10, 64) of a string of digits; -1 for its error.
RECURSIVE ParseInt(_)
ParseInt(s) ==
    IF s = <<>> \/ \E i \in 1..Len(s) : s[i] < 48 \/ s[i] > 57 THEN -1
    ELSE IF Len(s) = 1 THEN s[1] - 48
    ELSE 10 * ParseInt(SubSeq(s, 1, Len(s) - 1)) + (s[Len(s)] - 48)

\* NewGitObjectReader and ReadContents on the inflated bytes of an object
\* file: ReadString(' '), ReadString(0), ParseInt, io.ReadFull of
\* ContentSize bytes.
ReadContents(raw) ==
    LET sp == IndexByte(raw, SP)
        afterType == SubSeq(raw, sp + 1, Len(raw))
        nul == IndexByte(afterType, NUL)
        size == ParseInt(SubSeq(afterType, 1, nul - 1))
        rest == SubSeq(afterType, nul + 1, Len(afterType))
    IN  IF sp = 0 \/ nul = 0 THEN [err |-> "EOF", contents |-> <<>>]
        ELSE IF size < 0 THEN [err |-> "invalid syntax", contents |-> <<>>]
        ELSE IF Len(rest) < size THEN [err |-> "unexpected EOF", contents |-> <<>>]
        ELSE [err |-> "nil", contents |-> SubSeq(rest, 1, size)]

\* readObjectContent(repoPath, objSha)
readObjectContent(objectFile) == ReadContents(Inflate(objectFile))

FrameInit ==
    fr \in [pc : {"start"}, input : SeqsUpTo(ContentBytes, MaxLen), op : {"none"},
            type : {<<>>}, body : {<<>>}, object : {Deflate(<<>>)},
            contents : {<<>>}, err : {"none"}]

\* An operation wrote the object: its type, its body, the object file.
Wrote(op, type, body, framed) ==
    fr' = [fr EXCEPT !.pc = "written", !.op = op, !.type = type, !.body = body,
                     !.object = Deflate(framed)]

\* hash-object -w on a file holding input
Frame_hashObjectCmd ==
    /\ fr.pc = "start"
    /\ Wrote("hash-object", BlobTag, fr.input,
             (BlobTag \o <<SP>> \o Decimal(Len(fr.input)) \o <<NUL>>) \o fr.input)

\* write-tree on a directory holding one regular file named input:
\* header := fmt.Sprintf("tree %d\x00", treeBuffer.Len())
Frame_WriteTreeObject ==
    /\ fr.pc = "start"
    /\ fr.input # <<>> /\ \A i \in 1..Len(fr.input) : fr.input[i] # NUL
    /\ \E id \in RawIds :
          LET treeBuffer == TreeBody(<<[mode |-> ModeFile, name |-> fr.input, id |-> id]>>)
          IN  Wrote("write-tree", TreeTag, treeBuffer,
                    (TreeTag \o <<SP>> \o Decimal(Len(treeBuffer)) \o <<NUL>>) \o treeBuffer)

\* commit-tree <tree_sha> -p <commit_sha> -m input
Frame_WriteCommitObject ==
    /\ fr.pc = "start"
    /\ \E timestamp \in Timestamps :
          LET content == CommitContent(ArgTreeSha, ArgParentSha, fr.input, timestamp)
          IN  Wrote("commit-tree", CommitTag, content, CommitHeader(fr.input) \o content)

\* clone: writeGitObject(repoPath, object.wrappedBuf()) of a fetched object
\* whose Buf is input
Frame_writeFetchedObjects ==
    /\ fr.pc = "start"
    /\ \E objectType \in {CommitTag, TreeTag, BlobTag} :
          Wrote("clone", objectType, fr.input, wrapContent(fr.input, objectType))

\* readObjectContent on the object written
Frame_readObjectContent ==
    /\ fr.pc = "written"
    /\ LET r == readObjectContent(fr.object)
       IN  fr' = [fr EXCEPT !.pc = "read", !.contents = r.contents, !.err = r.err]

(***************************************************************************)
(* A clone that is cancelled once and run again.                           *)
(***************************************************************************)
\* The packs the remote answers both runs with: well-formed, made of the
\* commit, its tree, the blob, and a ref-delta on the blob.
RerunPacks ==
    { p \in Packs :
        /\ p.sign = "PACK" /\ p.version = 2 /\ p.trailerOk
        /\ \A k \in 1..Len(p.entries) :
              p.entries[k] \in { PlainEntry(1), PlainEntry(3), PlainEntry(4),
                                 Entry(objRefDelta, 3, 1, NoObj, <<2>>) } }

RerunInit ==
    /\ cl \in [pc : {"mkdir"}, dir : {".", "repo"}, commitSha : {0}, rd : {0},
               logged : {{}}, visited : {{}}, exitCode : {-1}, err : {"none"}]
    /\ pack \in RerunPacks
    /\ shaToObj = EmptyMap
    /\ fsys = EmptyDisk
    /\ rr = [pc |-> "run", run |-> 1, at |-> "none"]

\* The process is killed and the command started again: the new process has
\* its own locals and an empty shaToObj, and finds the disk as disk.
Cancelled(at, disk) ==
    /\ rr.pc = "run" /\ rr.run = 1
    /\ cl.pc # "done"
    /\ rr' = [rr EXCEPT !.run = 2, !.at = at]
    /\ cl' = [cl EXCEPT !.pc = "mkdir", !.commitSha = 0, !.rd = 0, !.logged = {},
                        !.visited = {}]
    /\ shaToObj' = EmptyMap
    /\ fsys' = disk
    /\ UNCHANGED pack

\* Cancelled between two steps of cloneCmd, two pack entries, or two object
\* files.
cloneCmd_Cancel == Cancelled("between", fsys)

\* Cancelled inside ioutil.WriteFile of writeBranchRefFile: the ref file is
\* there, truncated.
cloneCmd_CancelInWriteBranchRefFile ==
    /\ cl.pc = "ref"
    /\ Cancelled("writeBranchRefFile", writeBranchRefFileDisk(fsys, repoPath, ""))

\* Cancelled inside writeGitObject, after os.Create and before the content
\* is all written: the object file is there, partial.
cloneCmd_CancelInWriteGitObject ==
    /\ cl.pc = "write"
    /\ \E k \in DOMAIN shaToObj \ cl.visited :
          LET objFile == objectFilePath(repoPath, sha(shaToObj[k]))
              written == writeGitObjectDisk(fsys, repoPath, sha(shaToObj[k]))
          IN  Cancelled("writeGitObject", [written EXCEPT !.partial = @ \cup {objFile}])

\* Cancelled inside restoreRepository, in ioutil.WriteFile of a blob: the
\* file is there, truncated.
cloneCmd_CancelInRestoreRepository ==
    /\ cl.pc = "restore"
    /\ LET r == restoreRepository(fsys, repoPath, cl.commitSha)
       IN  /\ DOMAIN r.fs.work # {}
           /\ Cancelled("restoreRepository",
                        [r.fs EXCEPT !.work = [p \in DOMAIN @ |-> [@[p] EXCEPT !.data = <<>>]]])

(***************************************************************************)
(* cloneCmd run from its first step to its last without interruption, as   *)
(* one function of the pack and the directory.                             *)
(***************************************************************************)
\* The loop of fetchObjects over the entries es from entry i on.
RECURSIVE ReadFrom(_, _, _)
ReadFrom(m, es, i) ==
    LET r == readObject(m, es[i])
    IN  IF r.err # "nil" \/ i = Len(es) THEN r ELSE ReadFrom(r.map, es, i + 1)

\* fetchObjects: its error and the session map it leaves.
fetchObjects(es) ==
    IF es = <<>> THEN [err |-> "zlib: invalid header", map |-> EmptyMap]
    ELSE ReadFrom(EmptyMap, es, 1)

\* writeFetchedObjects(rp) over the objects named ids.
RECURSIVE writeFetchedObjects(_, _, _)
writeFetchedObjects(fs, rp, ids) ==
    IF ids = {} THEN fs
    ELSE LET id == CHOOSE id \in ids : TRUE
         IN  writeFetchedObjects(writeGitObjectDisk(fs, rp, id), rp, ids \ {id})

\* cloneCmd on pack p and directory rp, from an empty disk.
cloneCmd(p, rp) ==
    LET made == [EmptyDisk EXCEPT !.dirs = MkdirAllDirs(@, rp)]
        ref == writeBranchRefFileDisk(initCmdDisk(made, rp), rp, Hex(HeadSha))
        f == fetchObjects(p.entries)
    IN  IF f.err # "nil" THEN [fs |-> ref, exitCode |-> ExitCodeError, err |-> f.err]
        ELSE LET objs == writeFetchedObjects(ref, rp, { sha(f.map[k]) : k \in DOMAIN f.map })
                 r == restoreRepository(objs, rp, HeadSha)
             IN  [fs |-> r.fs, err |-> r.err,
                  exitCode |-> IF r.err = "nil" THEN ExitCodeOK ELSE ExitCodeError]

(***************************************************************************)
(* Pkt-lines: packetLine and readPacketLine.                               *)
(***************************************************************************)
\* The hex digit of d in 0..15, as fmt's %x writes it.
HexDigit(d) == IF d < 10 THEN 48 + d ELSE 87 + d

\* fmt.Sprintf("%x", n) for n >= 0
RECURSIVE HexDigits(_)
HexDigits(n) ==
    IF n < 16 THEN <<HexDigit(n)>> ELSE Append(HexDigits(n \div 16), HexDigit(n % 16))

\* fmt.Sprintf("%04x", n): at least four digits, padded with '0'.
Hex04(n) ==
    LET ds == HexDigits(n)
    IN  [i \in 1..(IF Len(ds) < 4 THEN 4 - Len(ds) ELSE 0) |-> 48] \o ds

\* packetLine(rawLine)
packetLine(rawLine) == Hex04(Len(rawLine) + 4) \o rawLine

\* The value of a hex digit, -1 for any other byte.
HexValue(b) ==
    IF b >= 48 /\ b <= 57 THEN b - 48
    ELSE IF b >= 97 /\ b <= 102 THEN b - 87
    ELSE IF b >= 65 /\ b <= 70 THEN b - 55
    ELSE -1

RECURSIVE HexNumber(_)
HexNumber(s) ==
    IF s = <<>> THEN 0 ELSE 16 * HexNumber(SubSeq(s, 1, Len(s) - 1)) + HexValue(s[Len(s)])

\* strconv.ParseInt(s, 16, 64): an optional sign, then hex digits only.
ParseInt16(s) ==
    LET signed == s # <<>> /\ s[1] \in {43, 45}
        digits == IF signed THEN Tail(s) ELSE s
    IN  IF digits = <<>> \/ \E i \in 1..Len(digits) : HexValue(digits[i]) < 0
           THEN [err |-> "invalid syntax", n |-> 0]
           ELSE [err |-> "nil", n |-> IF signed /\ s[1] = 45 THEN 0 - HexNumber(digits)
                                                          ELSE HexNumber(digits)]

\* reader.Read(p) with len(p) = n on a reader that holds stream: the bytes p
\* holds afterwards (zero where nothing was read), the error, what is left.
ReaderRead(stream, n) ==
    LET got == IF n < Len(stream) THEN n ELSE Len(stream)
    IN  [p |-> SubSeq(stream, 1, got) \o [i \in 1..(n - got) |-> 0],
         err |-> IF n > 0 /\ got = 0 THEN "EOF" ELSE "nil",
         rest |-> SubSeq(stream, got + 1, Len(stream))]

\* readPacketLine(reader): the payload and error it returns and what it
\* leaves in the reader; make([]byte, size-4) panics for a negative length.
readPacketLine(stream) ==
    LET hex == ReaderRead(stream, 4)
        size == ParseInt16(hex.p)
        buf == ReaderRead(hex.rest, size.n - 4)
    IN  IF hex.err # "nil" THEN [out |-> <<>>, err |-> hex.err, rest |-> hex.rest]
        ELSE IF size.err # "nil" THEN [out |-> <<>>, err |-> size.err, rest |-> hex.rest]
        ELSE IF size.n = 0 THEN [out |-> <<>>, err |-> "nil", rest |-> hex.rest]
        ELSE IF size.n - 4 < 0
             THEN [out |-> <<>>, err |-> "panic: makeslice: len out of range", rest |-> hex.rest]
        ELSE IF buf.err # "nil" THEN [out |-> <<>>, err |-> buf.err, rest |-> buf.rest]
        ELSE [out |-> buf.p, err |-> "nil", rest |-> buf.rest]

\* The bytes payloads are made of: '\n', '0', 'a'.
PayloadBytes == {10, 48, 97}

\* Length fields a peer can send: "0000" to "0005", "000a", "-001", "zzzz".
LengthFields ==
    { Hex04(n) : n \in 0..5 } \cup { Hex04(10), <<45, 48, 48, 49>>, <<122, 122, 122, 122>> }

\* What follows the line in the stream: nothing, or a flush "0000".
Followers == { <<>>, Hex04(0) }

PktInit ==
    pk \in [pc : {"start"}, payload : SeqsUpTo(PayloadBytes, MaxLen), follows : Followers,
            field : {<<>>}, stream : {<<>>}, out : {<<>>}, err : {"none"}, rest : {<<>>}]

\* The peer frames the payload with packetLine.
packetLine_Send ==
    /\ pk.pc = "start"
    /\ pk' = [pk EXCEPT !.pc = "framed", !.field = Hex04(Len(pk.payload) + 4),
                        !.stream = packetLine(pk.payload) \o pk.follows]

\* The peer sends a length field of its own, then the payload.
LengthField_Send ==
    /\ pk.pc = "start"
    /\ \E f \in LengthFields :
          pk' = [pk EXCEPT !.pc = "sent", !.field = f, !.stream = f \o pk.payload \o pk.follows]

\* readPacketLine on the stream.
readPacketLine_Run ==
    /\ pk.pc \in {"framed", "sent"}
    /\ LET r == readPacketLine(pk.stream)
       IN  pk' = [pk EXCEPT !.pc = IF pk.pc = "framed" THEN "read_framed" ELSE "read_sent",
                            !.out = r.out, !.err = r.err, !.rest = r.rest]

(***************************************************************************)
(* The header of a pack entry: readObjectTypeAndLen.                       *)
(***************************************************************************)
msbMask == 128
remMask == 127
objMask == 112
firstRemMask == 15

\* a & b on non-negative integers
RECURSIVE BitAnd(_, _)
BitAnd(a, b) ==
    IF a = 0 \/ b = 0 THEN 0
    ELSE 2 * BitAnd(a \div 2, b \div 2) + (IF a % 2 = 1 /\ b % 2 = 1 THEN 1 ELSE 0)

\* a << n and a >> n
ShiftLeft(a, n) == a * 2 ^ n
ShiftRight(a, n) == a \div 2 ^ n

\* Bytes a header is made of, with and without the continuation bit.
HeaderBytes == {0, 1, 53, 127, 128, 129, 181, 255}

HeaderInit ==
    hd \in [pc : {"start"}, stream : SeqsUpTo(HeaderBytes, MaxLen), read : {<<>>},
            objType : {0}, num : {0}, i : {0}, err : {"nil"}]

\* readObjectTypeAndLen up to the return after the first byte or the entry
\* into the loop.
readObjectTypeAndLen_First ==
    /\ hd.pc = "start"
    /\ IF hd.stream = <<>>
          THEN hd' = [hd EXCEPT !.pc = "returned", !.err = "EOF"]
          ELSE LET b == Head(hd.stream)
               IN  hd' = [hd EXCEPT
                      !.pc = IF BitAnd(b, msbMask) = 0 THEN "returned" ELSE "loop",
                      !.stream = Tail(hd.stream), !.read = <<b>>,
                      !.objType = ShiftRight(BitAnd(b, objMask), 4),
                      !.num = BitAnd(b, firstRemMask)]

\* One pass of the loop of readObjectTypeAndLen.
readObjectTypeAndLen_Loop ==
    /\ hd.pc = "loop"
    /\ IF hd.stream = <<>>
          THEN hd' = [hd EXCEPT !.pc = "returned", !.err = "EOF", !.objType = 0, !.num = 0]
          ELSE LET b == Head(hd.stream)
               IN  hd' = [hd EXCEPT
                      !.pc = IF BitAnd(b, msbMask) = 0 THEN "returned" ELSE "loop",
                      !.stream = Tail(hd.stream), !.read = Append(hd.read, b),
                      !.num = hd.num + ShiftLeft(b, 4 + 7 * hd.i),
                      !.i = IF BitAnd(b, msbMask) = 0 THEN hd.i ELSE hd.i + 1]

(***************************************************************************)
(* One undeltified pack entry, byte by byte: readObjectTypeAndLen, then    *)
(* readObject's branch for the types that are not deltas.                  *)
(***************************************************************************)
\* The loop of readObjectTypeAndLen from shift index i on.
RECURSIVE readObjectTypeAndLenLoop(_, _, _)
readObjectTypeAndLenLoop(stream, num, i) ==
    IF stream = <<>> THEN [err |-> "EOF", num |-> 0, rest |-> stream]
    ELSE LET b == Head(stream)
             added == num + ShiftLeft(b, 4 + 7 * i)
         IN  IF BitAnd(b, msbMask) = 0
                THEN [err |-> "nil", num |-> added, rest |-> Tail(stream)]
                ELSE readObjectTypeAndLenLoop(Tail(stream), added, i + 1)

\* readObjectTypeAndLen(reader): the type, the size, the error, and what is
\* left in the reader.
readObjectTypeAndLen(stream) ==
    IF stream = <<>> THEN [objType |-> 0, num |-> 0, err |-> "EOF", rest |-> stream]
    ELSE LET b == Head(stream)
             objType == ShiftRight(BitAnd(b, objMask), 4)
             num == BitAnd(b, firstRemMask)
             more == readObjectTypeAndLenLoop(Tail(stream), num, 0)
         IN  IF BitAnd(b, msbMask) = 0
                THEN [objType |-> objType, num |-> num, err |-> "nil", rest |-> Tail(stream)]
             ELSE IF more.err # "nil"
                THEN [objType |-> 0, num |-> 0, err |-> more.err, rest |-> more.rest]
             ELSE [objType |-> objType, num |-> more.num, err |-> "nil", rest |-> more.rest]

\* The tag typeString gives a type code, <<>> with its error.
typeTag(t) ==
    CASE t = objCommit -> CommitTag
      [] t = objTree -> TreeTag
      [] t = objBlob -> BlobTag
      [] OTHER -> <<>>

\* (o *Object) wrappedBuf: the framed bytes, <<>> with the error of typeString.
wrappedBuf(o) ==
    IF typeTag(o.Type) = <<>> THEN <<>> ELSE wrapContent(o.Buf, typeTag(o.Type))

\* saveObj(o) on the session map m, keyed by the framed bytes the SHA-1 is
\* taken of.
saveObjBytes(m, o) ==
    IF wrappedBuf(o) = <<>> THEN [err |-> "Invalid type", map |-> m]
    ELSE [err |-> "nil", map |-> Put(m, wrappedBuf(o), o)]

\* readObject's last branch: decompressObject, the length test, saveObj.
readObjectUndeltified(m, objType, objLen, deflated) ==
    LET decompressed == Inflate(deflated)
    IN  IF objLen # Len(decompressed)
           THEN [err |-> "Expected obj len", map |-> m]
           ELSE saveObjBytes(m, [Type |-> objType, Buf |-> decompressed])

\* Headers of one, two and three bytes for the types commit, tree and blob.
EntryHeaders ==
    UNION { { <<16 * t + low>>, <<128 + 16 * t + low, 1>>, <<128 + 16 * t + low, 127>>,
              <<128 + 16 * t + low, 128, 1>> } :
            t \in {objCommit, objTree, objBlob}, low \in {0, 1, 15} }

\* Lengths of the bodies the DEFLATE stream of the entry inflates to.
BodyLens == {0, 1, 15, 16, 2047, 2048, 2049, 4096}

EntryInit ==
    en \in [pc : {"header"}, header : EntryHeaders,
            deflated : { Deflate([i \in 1..n |-> 97]) : n \in BodyLens },
            objType : {0}, objLen : {0}, err : {"none"}, map : {EmptyMap}]

\* readObject up to the branch on the type.
Entry_readObjectTypeAndLen ==
    /\ en.pc = "header"
    /\ LET h == readObjectTypeAndLen(en.header)
       IN  en' = [en EXCEPT !.pc = IF h.err = "nil" THEN "body" ELSE "returned",
                            !.objType = h.objType, !.objLen = h.num, !.err = h.err]

\* readObject from the branch on the type to its return.
Entry_readObject ==
    /\ en.pc = "body"
    /\ en.objType \notin {objRefDelta, objOfsDelta}
    /\ LET r == readObjectUndeltified(en.map, en.objType, en.objLen, en.deflated)
       IN  en' = [en EXCEPT !.pc = "returned", !.err = r.err, !.map = r.map]

(***************************************************************************)
(* One ref-delta entry, byte by byte: readDeltified, then readObject's     *)
(* saveObj of the Object made of it.                                       *)
(***************************************************************************)
\* binary.ReadUvarint(reader) from byte i, shift s, value x so far: at most
\* ten bytes, seven bits each, the least significant group first.
RECURSIVE ReadUvarintFrom(_, _, _, _)
ReadUvarintFrom(stream, x, s, i) ==
    IF i = 10 THEN [x |-> x, err |-> "overflow", rest |-> stream]
    ELSE IF stream = <<>>
         THEN [x |-> x, err |-> IF i > 0 THEN "unexpected EOF" ELSE "EOF", rest |-> stream]
    ELSE LET b == Head(stream)
         IN  IF b < 128
                THEN IF i = 9 /\ b > 1
                        THEN [x |-> x, err |-> "overflow", rest |-> Tail(stream)]
                        ELSE [x |-> x + ShiftLeft(b, s), err |-> "nil", rest |-> Tail(stream)]
                ELSE ReadUvarintFrom(Tail(stream), x + ShiftLeft(BitAnd(b, 127), s), s + 7, i + 1)

ReadUvarint(stream) == ReadUvarintFrom(stream, 0, 0, 0)

\* The two loops of a copy instruction over the bits lo..hi of firstByte:
\* each bit that is set reads one byte, shifted by 8 for every bit passed.
RECURSIVE ReadSelected(_, _, _, _, _, _)
ReadSelected(stream, firstByte, bit, hi, lo, acc) ==
    IF bit > hi THEN [n |-> acc, err |-> "nil", rest |-> stream]
    ELSE IF ShiftRight(firstByte, bit) % 2 = 0
         THEN ReadSelected(stream, firstByte, bit + 1, hi, lo, acc)
    ELSE IF stream = <<>> THEN [n |-> acc, err |-> "EOF", rest |-> stream]
    ELSE ReadSelected(Tail(stream), firstByte, bit + 1, hi, lo,
                      acc + ShiftLeft(Head(stream), (bit - lo) * 8))

\* The slice taken from the start of the body, whatever the offset.
SliceOfFromStart(buf, spare, offset, size) ==
    IF offset + size > Len(buf) + Len(spare)
       THEN [err |-> "panic: slice bounds out of range", bytes |-> <<>>]
       ELSE [err |-> "nil", bytes |-> SubSeq(buf \o spare, 1, size)]

\* baseObj.Buf[offset : offset+size] on a slice of body buf whose backing
\* array holds spare beyond it: a panic beyond the capacity, and whatever
\* the spare capacity holds beyond the length.
SliceOf(buf, spare, offset, size) ==
    IF offset + size > Len(buf) + Len(spare)
       THEN [err |-> "panic: slice bounds out of range", bytes |-> <<>>]
       ELSE [err |-> "nil", bytes |-> SubSeq(buf \o spare, offset + 1, offset + size)]

\* The test readDeltified ends with, on a result of the declared length or not.
readDeltifiedUnchecked(result, dstObjLen) == "nil"

\* if result.Len() != int(dstObjLen): the error readDeltified returns.
readDeltifiedReturn(result, dstObjLen) ==
    IF Len(result) # dstObjLen THEN "Invalid deltified buf" ELSE "nil"

\* The body of a base object is held as its first bytes and the number of
\* bytes 0x01 that follow them.
Buf(b) == b.head \o [i \in 1..b.pad |-> 1]

\* Bodies of base objects: b1, b2, b3.
BaseBufs == { [head |-> h, pad |-> 0] : h \in { <<1>>, <<1, 2>>, <<1, 2, 3>> } }

\* What the backing array of a body holds beyond its length.
Spares == { <<>>, <<9, 9>> }

\* Delta instructions: inserts of N literal bytes (N = 0, the bytes missing),
\* copies with offset and size bytes selected by the opcode bits.
Instructions ==
    { <<1, 33>>, <<2, 33, 63>>, <<2, 33>>, <<0>>,
      <<144, 1>>, <<144, 2>>, <<144, 3>>, <<144, 0>>, <<144>>, <<128>>,
      <<145, 1, 1>>, <<145, 1, 2>>, <<145, 3, 1>>, <<145, 1>>,
      <<176, 1, 0>>, <<147, 1, 0, 1>> }

\* The two sizes a delta starts with, as varints of one and two bytes.
DeltaHeaders ==
    { <<s>> \o d : s \in {1, 3}, d \in { <<1>>, <<2>>, <<3>>, <<4>>, <<130, 0>>, <<130>> } }

\* a body of 0x10000 bytes and one of 0x10001 bytes
LargeBufs == { [head |-> <<2>>, pad |-> 65535], [head |-> <<2>>, pad |-> 65536] }

DeltaRecord(buf, spare, delta) ==
    [pc |-> "header", base |-> buf, spare |-> spare, delta |-> delta, reader |-> delta,
     dstObjLen |-> 0, result |-> <<>>, err |-> "none",
     last |-> [op |-> "none", offset |-> 0, size |-> 0, before |-> 0],
     saved |-> EmptyMap]

DeltaInit ==
    dl \in { DeltaRecord(buf, spare, h \o ins) :
                buf \in BaseBufs, spare \in Spares, h \in DeltaHeaders,
                ins \in { <<>> } \cup Instructions
                        \cup { a \o b : a \in Instructions, b \in Instructions } }
           \cup { DeltaRecord(buf, <<>>, <<1, 0>> \o ins) :
                buf \in LargeBufs, ins \in { <<128>>, <<144, 0>>, <<145, 1>>, <<145, 2>> } }

\* return nil, err
DeltaFails(e) == dl' = [dl EXCEPT !.pc = "returned", !.err = e]

\* readDeltified up to its loop: the two sizes are read.
readDeltified_Header ==
    /\ dl.pc = "header"
    /\ LET src == ReadUvarint(dl.reader)
           dst == ReadUvarint(src.rest)
       IN  IF src.err # "nil" THEN DeltaFails(src.err)
           ELSE IF dst.err # "nil" THEN DeltaFails(dst.err)
           ELSE dl' = [dl EXCEPT !.pc = "loop", !.reader = dst.rest, !.dstObjLen = dst.x]

\* One turn of the loop with an opcode whose top bit is clear: io.CopyN.
readDeltified_Insert ==
    /\ dl.pc = "loop" /\ dl.reader # <<>>
    /\ BitAnd(Head(dl.reader), msbMask) = 0
    /\ LET n == BitAnd(Head(dl.reader), remMask)
           from == Tail(dl.reader)
       IN  IF Len(from) < n THEN DeltaFails("EOF")
           ELSE dl' = [dl EXCEPT !.reader = SubSeq(from, n + 1, Len(from)),
                                 !.result = @ \o SubSeq(from, 1, n),
                                 !.last = [op |-> "insert", offset |-> 0, size |-> n,
                                           before |-> Len(dl.result)]]

\* One turn of the loop with an opcode whose top bit is set: the offset and
\* size bytes, then result.Write(baseObj.Buf[offset : offset+size]).
readDeltified_Copy ==
    /\ dl.pc = "loop" /\ dl.reader # <<>>
    /\ BitAnd(Head(dl.reader), msbMask) # 0
    /\ LET firstByte == Head(dl.reader)
           offset == ReadSelected(Tail(dl.reader), firstByte, 0, 3, 0, 0)
           size == ReadSelected(offset.rest, firstByte, 4, 6, 4, 0)
           slice == SliceOf(Buf(dl.base), dl.spare, offset.n, size.n)
       IN  IF offset.err # "nil" THEN DeltaFails(offset.err)
           ELSE IF size.err # "nil" THEN DeltaFails(size.err)
           ELSE IF slice.err # "nil"
                THEN dl' = [dl EXCEPT !.pc = "panic", !.err = slice.err,
                                      !.last = [op |-> "copy", offset |-> offset.n,
                                                size |-> size.n, before |-> Len(dl.result)]]
           ELSE dl' = [dl EXCEPT !.reader = size.rest,
                                 !.result = @ \o slice.bytes,
                                 !.last = [op |-> "copy", offset |-> offset.n,
                                           size |-> size.n, before |-> Len(dl.result)]]

\* The loop ends with the reader empty; the length of the result is tested.
readDeltified_Return ==
    /\ dl.pc = "loop" /\ dl.reader = <<>>
    /\ LET e == readDeltifiedReturn(dl.result, dl.dstObjLen)
       IN  IF e # "nil" THEN DeltaFails(e)
           ELSE dl' = [dl EXCEPT !.pc = "deltified"]

\* readObject after readDeltified: the Object of the base's Type is saved;
\* saved is what this entry adds to the session map.
readObject_saveDeltified ==
    /\ dl.pc = "deltified"
    /\ LET baseObj == [Type |-> objBlob, Buf |-> Buf(dl.base)]
           r == saveObjBytes(dl.saved, [Type |-> baseObj.Type, Buf |-> dl.result])
       IN  dl' = [dl EXCEPT !.pc = "returned", !.err = r.err, !.saved = r.map]

(***************************************************************************)
(* parseTree on the bytes of a tree body.                                  *)
(***************************************************************************)
\* fmt.Sprintf("%x", sha): two hex digits for every byte.
RECURSIVE HexOf(_)
HexOf(bytes) ==
    IF bytes = <<>> THEN <<>>
    ELSE <<HexDigit(Head(bytes) \div 16), HexDigit(Head(bytes) % 16)>> \o HexOf(Tail(bytes))

\* One turn of the loop of parseTree on what is left of treeBuf:
\* ReadString(' ') ends the loop at io.EOF, whatever it read; ReadString(0)
\* fails at io.EOF; Read(sha) fills what is there of the 20 bytes and fails
\* only when nothing is.
parseTreeEntry(buf) ==
    LET sp == IndexByte(buf, SP)
        afterMode == SubSeq(buf, sp + 1, Len(buf))
        nul == IndexByte(afterMode, NUL)
        afterName == SubSeq(afterMode, nul + 1, Len(afterMode))
        got == IF Len(afterName) < RawIdLen THEN Len(afterName) ELSE RawIdLen
        shaBuf == SubSeq(afterName, 1, got) \o [i \in 1..(RawIdLen - got) |-> 0]
    IN  IF sp = 0 THEN [step |-> "break", err |-> "nil", rest |-> <<>>]
        ELSE IF nul = 0 THEN [step |-> "return", err |-> "EOF", rest |-> <<>>]
        ELSE IF afterName = <<>> THEN [step |-> "return", err |-> "EOF", rest |-> <<>>]
        ELSE [step |-> "append", err |-> "nil",
              child |-> [mode |-> SubSeq(buf, 1, sp - 1),
                         name |-> SubSeq(afterMode, 1, nul - 1),
                         sha |-> HexOf(shaBuf)],
              rest |-> SubSeq(afterName, got + 1, Len(afterName))]

\* parseTree(treeBuf): the error and the children of the Tree returned.
RECURSIVE parseTreeFrom(_, _)
parseTreeFrom(buf, children) ==
    LET e == parseTreeEntry(buf)
    IN  IF e.step = "break" THEN [err |-> "nil", children |-> children]
        ELSE IF e.step = "return" THEN [err |-> e.err, children |-> <<>>]
        ELSE parseTreeFrom(e.rest, Append(children, e.child))

parseTree(treeBuf) == parseTreeFrom(treeBuf, <<>>)

\* Well-formed entries: "100644" or "40000", ' ', "a", NUL, 20 id bytes
\* (of 7s, or of 32s: an id may hold the byte of a space).
TreeBufEntries ==
    { mode \o <<SP, 97, NUL>> \o [i \in 1..RawIdLen |-> b] :
        mode \in { <<49, 48, 48, 54, 52, 52>>, <<52, 48, 48, 48, 48>> }, b \in {7, 32} }

\* What follows the last whole entry: nothing; bytes without a space; a
\* mode and a name without NUL; a name with 0, 1 or 19 bytes after its NUL.
TreeBufTails ==
    { <<>>, <<120>>, <<120, SP, 97>>, <<120, SP, 97, NUL>>, <<120, SP, 97, NUL, 7>>,
      <<120, SP, 97, NUL>> \o [i \in 1..(RawIdLen - 1) |-> 7] }

RECURSIVE Flatten(_)
Flatten(ss) == IF ss = <<>> THEN <<>> ELSE Head(ss) \o Flatten(Tail(ss))

\* The reader parseTree makes over treeBuf, nothing read yet.
ParseTreeInit ==
    pt \in { [pc |-> "loop", treeBuf |-> b, reader |-> b, children |-> <<>>,
              err |-> "none", unread |-> 0] :
             b \in { Flatten(es) \o t : es \in SeqsUpTo(TreeBufEntries, MaxTreeEntries),
                                        t \in TreeBufTails } }

\* One turn of the loop that appends a child.
parseTree_Append ==
    /\ pt.pc = "loop"
    /\ parseTreeEntry(pt.reader).step = "append"
    /\ pt' = [pt EXCEPT !.reader = parseTreeEntry(pt.reader).rest,
                        !.children = Append(@, parseTreeEntry(pt.reader).child)]

\* The turn of the loop that ends it: break and return &tree, nil, or
\* return nil, err.
parseTree_Return ==
    /\ pt.pc = "loop"
    /\ parseTreeEntry(pt.reader).step # "append"
    /\ LET e == parseTreeEntry(pt.reader)
       IN  pt' = [pt EXCEPT !.pc = "returned", !.err = e.err,
                            !.children = IF e.step = "break" THEN @ ELSE <<>>,
                            !.unread = IF e.step = "break" THEN Len(pt.reader) ELSE 0]

(***************************************************************************)
(* restoreRepository and traverseTree, call by call, on a stored commit.   *)
(*                                                                         *)
(* A path is the sequence of its elements after path.Clean: <<>> is ".",   *)
(* and a path that leaves the working directory begins with "..".          *)
(***************************************************************************)
\* children of the root tree
MaxChildren == 2

\* The elements of a name between its '/' bytes.
Segments(name) == IF name = "../x" THEN <<"..", "x">> ELSE <<name>>

\* path.Clean on a sequence of elements: "." is dropped, ".." takes back the
\* element before it, or stays when there is none to take back.
RECURSIVE Clean(_)
Clean(p) ==
    IF p = <<>> THEN <<>>
    ELSE LET c == Clean(SubSeq(p, 1, Len(p) - 1))
             e == p[Len(p)]
         IN  IF e = "." THEN c
             ELSE IF e = ".." /\ c # <<>> /\ c[Len(c)] # ".." THEN SubSeq(c, 1, Len(c) - 1)
             ELSE Append(c, e)

\* path.Join(a, b): the elements joined by '/', cleaned.
PathJoin(a, b) == Clean(a \o b)

\* path.Dir(p)
PathDir(p) == IF Len(p) <= 1 THEN <<>> ELSE SubSeq(p, 1, Len(p) - 1)

ModeBlob == <<1, 0, 0, 6, 4, 4>>
ModeTree == <<4, 0, 0, 0, 0>>
\* "040000", "120000" (a symlink), "160000" (a gitlink)
ModeTreeZero == <<0, 4, 0, 0, 0, 0>>
ModeSymlink == <<1, 2, 0, 0, 0, 0>>
ModeGitlink == <<1, 6, 0, 0, 0, 0>>

\* The stored objects: 1 the commit of tree 2, 2 the root tree, 3 a blob,
\* 4 a tree holding the blob as "x". 5 is the commit a gitlink names, which
\* the store does not hold.
RestoreBlobSha == 3
RestoreSubTreeSha == 4
RestoreGitlinkSha == 5

\* The content of the blob: "x".
RestoreBlobContent == <<120>>
RestoreSubTree == <<TreeChild(ModeBlob, "x", RestoreBlobSha)>>

\* The entries a root tree is made of.
RootChildren ==
    { TreeChild(ModeBlob, n, RestoreBlobSha) : n \in {"a.txt", ".", "..", "../x"} }
    \cup { TreeChild(ModeTree, n, RestoreSubTreeSha) : n \in {"sub", ".."} }
    \cup { TreeChild(ModeTreeZero, "sub0", RestoreSubTreeSha),
           TreeChild(ModeSymlink, "link", RestoreBlobSha),
           TreeChild(ModeGitlink, "mod", RestoreGitlinkSha) }

\* parseTree(readObjectContent(repoPath, treeSha)).children
TreeChildrenOf(root, treeSha) ==
    IF treeSha = RestoreSubTreeSha THEN RestoreSubTree
    ELSE IF treeSha = RestoreBlobSha THEN parseTree(RestoreBlobContent).children
    ELSE root

RestoreInit ==
    rs \in [pc : {"start"}, repoPath : {<<>>, <<"repo">>},
            root : SeqsUpTo(RootChildren, MaxChildren),
            stack : {<<>>}, made : {{}}, files : {EmptyMap}, unsafe : {FALSE},
            asBlob : {{}}, asTree : {{}}, parsed : {{}}, err : {"none"}]

\* The directories that exist: the working directory and those above it,
\* the repository's, and those made by os.MkdirAll.
IsDirectory(p) ==
    \/ \A i \in 1..Len(p) : p[i] = ".."
    \/ p = rs.repoPath
    \/ p \in rs.made

\* os.MkdirAll(p): the directories it makes; none when an element of p is a
\* file.
MkdirAllBlocked(p) == \E n \in 1..Len(p) : SubSeq(p, 1, n) \in DOMAIN rs.files
MkdirAllMakes(p) == { SubSeq(p, 1, n) : n \in 1..Len(p) } \ { q \in { SubSeq(p, 1, n) : n \in 1..Len(p) } : IsDirectory(q) }

\* The call of traverseTree on top of the stack and the child its loop is at.
RsTop == rs.stack[Len(rs.stack)]
AtChild == rs.pc = "run" /\ RsTop.i <= Len(RsTop.children)
Child == RsTop.children[RsTop.i]

\* A name the path construction must reject.
UnsafeName(name) == name \in {".", ".."} \/ Len(Segments(name)) > 1

TraverseFrame(curDir, treeSha) ==
    [curDir |-> curDir, children |-> TreeChildrenOf(rs.root, treeSha), i |-> 1]

RsFails(e) == [rs EXCEPT !.pc = "done", !.err = e,
                         !.unsafe = @ \/ UnsafeName(Child.name)]

\* restoreRepository: the commit is read, its tree line parsed, and
\* traverseTree(repoPath, "", treeSha) called.
restoreRepository_Call ==
    /\ rs.pc = "start"
    /\ rs' = [rs EXCEPT !.pc = "run", !.stack = <<TraverseFrame(<<>>, 2)>>,
                        !.parsed = {2}]

\* A child with a blob mode: the blob is read, the directory of filePath
\* made, the file written.
traverseTree_Blob ==
    /\ AtChild /\ isBlob(Child.mode)
    /\ LET filePath == PathJoin(rs.repoPath, RsTop.curDir \o Segments(Child.name))
           dir == PathDir(filePath)
       IN  IF MkdirAllBlocked(dir) THEN rs' = RsFails("ENOTDIR")
           ELSE IF IsDirectory(filePath)
                THEN rs' = [RsFails("EISDIR") EXCEPT !.made = @ \cup MkdirAllMakes(dir)]
           ELSE rs' = [rs EXCEPT !.made = @ \cup MkdirAllMakes(dir),
                                 !.files = Put(@, filePath, getPerm(Child.mode)),
                                 !.unsafe = @ \/ UnsafeName(Child.name),
                                 !.asBlob = @ \cup {Child.mode},
                                 !.stack[Len(rs.stack)].i = @ + 1]

\* Any other child: childDir := path.Join(curDir, child.name) and the
\* recursive call, up to its loop: readObjectContent fails for an object the
\* store does not hold, parseTree is given the content of any other.
traverseTree_Tree ==
    /\ AtChild /\ ~isBlob(Child.mode)
    /\ IF Child.sha = RestoreGitlinkSha
          THEN rs' = [RsFails("ENOENT") EXCEPT !.asTree = @ \cup {Child.mode}]
          ELSE rs' = [rs EXCEPT !.unsafe = @ \/ UnsafeName(Child.name),
                                !.asTree = @ \cup {Child.mode},
                                !.parsed = @ \cup {Child.sha},
                                !.stack = Append(@, TraverseFrame(
                                     PathJoin(RsTop.curDir, Segments(Child.name)), Child.sha))]

\* The loop is over: return nil, and the caller's loop moves on.
traverseTree_Return ==
    /\ rs.pc = "run" /\ RsTop.i > Len(RsTop.children)
    /\ LET callers == SubSeq(rs.stack, 1, Len(rs.stack) - 1)
       IN  IF callers = <<>>
              THEN rs' = [rs EXCEPT !.pc = "done", !.err = "nil", !.stack = <<>>]
              ELSE rs' = [rs EXCEPT !.stack =
                             [callers EXCEPT ![Len(callers)].i = @ + 1]]

(***************************************************************************)
(* The specifications.                                                     *)
(***************************************************************************)
cmdVars == <<cli, bl, lt, wt, fr, rs, pk, hd, en, dl, pt, rr>>
vars == <<storeVars, cloneVars, cmdVars>>

\* The groups a specification does not drive stay as they begin.
StoreParked == StoreInit
CloneParked ==
    /\ cl = [pc |-> "parked"]
    /\ pack = <<>>
    /\ shaToObj = EmptyMap
    /\ fsys = EmptyDisk

CliParked == cli = [pc |-> "parked"]
BlobParked == bl = [pc |-> "parked"]
LsTreeParked == lt = [pc |-> "parked"]
WriteTreeParked == wt = [pc |-> "parked"]
FrameParked == fr = [pc |-> "parked"]
RestoreParked == rs = [pc |-> "parked"]
RerunParked == rr = [pc |-> "parked"]
PktParked == pk = [pc |-> "parked"]
HeaderParked == hd = [pc |-> "parked"]
EntryParked == en = [pc |-> "parked"]
DeltaParked == dl = [pc |-> "parked"]
ParseTreeParked == pt = [pc |-> "parked"]
CmdParked == CliParked /\ BlobParked /\ LsTreeParked /\ WriteTreeParked /\ FrameParked /\ RestoreParked /\ PktParked /\ HeaderParked /\ EntryParked /\ DeltaParked /\ ParseTreeParked /\ RerunParked

StoreOnly == UNCHANGED <<cloneVars, cmdVars>>
CloneOnly == UNCHANGED <<storeVars, cmdVars>>
CliOnly == UNCHANGED <<storeVars, cloneVars, bl, lt, wt, fr, rs, pk, hd, en, dl, pt, rr>>
BlobOnly == UNCHANGED <<storeVars, cloneVars, cli, lt, wt, fr, rs, pk, hd, en, dl, pt, rr>>
LsTreeOnly == UNCHANGED <<storeVars, cloneVars, cli, bl, wt, fr, rs, pk, hd, en, dl, pt, rr>>
WriteTreeOnly == UNCHANGED <<storeVars, cloneVars, cli, bl, lt, fr, rs, pk, hd, en, dl, pt, rr>>
FrameOnly == UNCHANGED <<storeVars, cloneVars, cli, bl, lt, wt, rs, pk, hd, en, dl, pt, rr>>
RestoreOnly == UNCHANGED <<storeVars, cloneVars, cli, bl, lt, wt, fr, pk, hd, en, dl, pt, rr>>

\* Sequential puts through every write path, writes may fail.
NextStore ==
    \/ \E p \in Procs, x \in ObjIds : Quiescent /\ writeObject_Begin(p, x) /\ StoreOnly
    \/ \E p \in Procs, x \in ObjIds : Quiescent /\ hashObjectCmd_Begin(p, x) /\ StoreOnly
    \/ \E p \in Procs, x \in ObjIds : Quiescent /\ writeGitObject_Begin(p, x) /\ StoreOnly
    \/ \E p \in Procs : writeObject_Stat(p) /\ StoreOnly
    \/ \E p \in Procs : writeObject_Mkdir(p) /\ StoreOnly
    \/ \E p \in Procs : hashObjectCmd_StatDir(p) /\ StoreOnly
    \/ \E p \in Procs : MkdirAll(p) /\ StoreOnly
    \/ \E p \in Procs : Open(p) /\ StoreOnly
    \/ \E p \in Procs : Write(p) /\ StoreOnly
    \/ \E p \in Procs : Close(p) /\ StoreOnly
    \/ \E p \in Procs : WriteFail(p) /\ StoreOnly

InitStore == StoreInit /\ CloneParked /\ CmdParked

SpecStore == InitStore /\ [][NextStore]_vars

\* Parallel puts through writeObject.
NextPut ==
    \/ \E p \in Procs, x \in ObjIds : writeObject_Begin(p, x) /\ StoreOnly
    \/ \E p \in Procs : writeObject_Stat(p) /\ StoreOnly
    \/ \E p \in Procs : writeObject_Mkdir(p) /\ StoreOnly
    \/ \E p \in Procs : Open(p) /\ StoreOnly
    \/ \E p \in Procs : Write(p) /\ StoreOnly
    \/ \E p \in Procs : Close(p) /\ StoreOnly

SpecPut == InitStore /\ [][NextPut]_vars

\* cloneCmd on one packfile.
NextClone ==
    \/ cloneCmd_MkdirAll /\ CloneOnly
    \/ cloneCmd_initCmd /\ CloneOnly
    \/ cloneCmd_fetchLatestCommitHash /\ CloneOnly
    \/ cloneCmd_writeBranchRefFile /\ CloneOnly
    \/ cloneCmd_fetchObjects_Header /\ CloneOnly
    \/ cloneCmd_fetchObjects_readObject /\ CloneOnly
    \/ cloneCmd_writeFetchedObjects_Object /\ CloneOnly
    \/ cloneCmd_writeFetchedObjects_Return /\ CloneOnly
    \/ cloneCmd_restoreRepository /\ CloneOnly

InitClone == CloneInit /\ StoreParked /\ CmdParked

SpecClone == InitClone /\ [][NextClone]_vars

\* One run of the program on one os.Args.
NextCli ==
    \/ main_Enter /\ CliOnly
    \/ run_Switch /\ CliOnly
    \/ initCmd /\ CliOnly
    \/ catFileCmd /\ CliOnly
    \/ hashObjectCmd /\ CliOnly
    \/ lsTreeCmd /\ CliOnly
    \/ writeTreeCmd /\ CliOnly
    \/ createCommitCmd /\ CliOnly
    \/ run_Return /\ CliOnly
    \/ main_Exit /\ CliOnly

InitCli ==
    CliInit /\ StoreParked /\ CloneParked /\ BlobParked /\ LsTreeParked /\ WriteTreeParked /\ FrameParked /\ RestoreParked /\ PktParked /\ HeaderParked /\ EntryParked /\ DeltaParked /\ ParseTreeParked /\ RerunParked

SpecCli == InitCli /\ [][NextCli]_vars

\* hash-object -w on one file, then cat-file -p on the identifier printed.
NextBlob ==
    \/ hashObjectCmd_Run /\ BlobOnly
    \/ catFileCmd_Run /\ BlobOnly

InitBlob ==
    BlobInit /\ StoreParked /\ CloneParked /\ CliParked /\ LsTreeParked /\ WriteTreeParked /\ FrameParked /\ RestoreParked /\ PktParked /\ HeaderParked /\ EntryParked /\ DeltaParked /\ ParseTreeParked /\ RerunParked

SpecBlob == InitBlob /\ [][NextBlob]_vars

\* A tree object is stored, then ls-tree --name-only runs on it.
NextLsTree ==
    \/ StoreTree /\ LsTreeOnly
    \/ lsTreeCmd_Run /\ LsTreeOnly

InitLsTree ==
    LsTreeInit /\ StoreParked /\ CloneParked /\ CliParked /\ BlobParked /\ WriteTreeParked /\ FrameParked /\ RestoreParked /\ PktParked /\ HeaderParked /\ EntryParked /\ DeltaParked /\ ParseTreeParked /\ RerunParked

SpecLsTree == InitLsTree /\ [][NextLsTree]_vars


\* write-tree on one working directory.
NextWriteTree ==
    \/ writeTreeCmd_Call /\ WriteTreeOnly
    \/ WriteTreeObject_Dir /\ WriteTreeOnly
    \/ WriteTreeObject_Regular /\ WriteTreeOnly
    \/ WriteTreeObject_Other /\ WriteTreeOnly
    \/ WriteTreeObject_Return /\ WriteTreeOnly

InitWriteTree ==
    WriteTreeInit /\ StoreParked /\ CloneParked /\ CliParked /\ BlobParked /\ LsTreeParked /\ FrameParked /\ RestoreParked /\ PktParked /\ HeaderParked /\ EntryParked /\ DeltaParked /\ ParseTreeParked /\ RerunParked

SpecWriteTree == InitWriteTree /\ [][NextWriteTree]_vars

\* One object is written by one operation and read back.
NextFrame ==
    \/ Frame_hashObjectCmd /\ FrameOnly
    \/ Frame_WriteTreeObject /\ FrameOnly
    \/ Frame_WriteCommitObject /\ FrameOnly
    \/ Frame_writeFetchedObjects /\ FrameOnly
    \/ Frame_readObjectContent /\ FrameOnly

InitFrame ==
    FrameInit /\ StoreParked /\ CloneParked /\ CliParked /\ BlobParked /\ LsTreeParked /\ WriteTreeParked /\ RestoreParked /\ PktParked /\ HeaderParked /\ EntryParked /\ DeltaParked /\ ParseTreeParked /\ RerunParked

SpecFrame == InitFrame /\ [][NextFrame]_vars

\* restoreRepository on one stored commit.
NextRestore ==
    \/ restoreRepository_Call /\ RestoreOnly
    \/ traverseTree_Blob /\ RestoreOnly
    \/ traverseTree_Tree /\ RestoreOnly
    \/ traverseTree_Return /\ RestoreOnly

InitRestore ==
    RestoreInit /\ StoreParked /\ CloneParked /\ CliParked /\ BlobParked /\ LsTreeParked /\ WriteTreeParked /\ FrameParked /\ PktParked /\ HeaderParked /\ EntryParked /\ DeltaParked /\ ParseTreeParked /\ RerunParked

SpecRestore == InitRestore /\ [][NextRestore]_vars

\* cloneCmd on one packfile, into a repository whose store holds an object.
InitCloneExisting == CloneExistingInit /\ StoreParked /\ CmdParked

SpecCloneExisting == InitCloneExisting /\ [][NextClone]_vars

\* A clone, cancelled at most once and then run again.
CancelOnly == UNCHANGED <<storeVars, cli, bl, lt, wt, fr, rs, pk, hd, en, dl, pt>>
PktOnly == UNCHANGED <<storeVars, cloneVars, cli, bl, lt, wt, fr, rs, hd, en, dl, pt, rr>>
HeaderOnly == UNCHANGED <<storeVars, cloneVars, cli, bl, lt, wt, fr, rs, pk, en, dl, pt, rr>>
EntryOnly == UNCHANGED <<storeVars, cloneVars, cli, bl, lt, wt, fr, rs, pk, hd, dl, pt, rr>>
DeltaOnly == UNCHANGED <<storeVars, cloneVars, cli, bl, lt, wt, fr, rs, pk, hd, en, pt, rr>>
ParseTreeOnly == UNCHANGED <<storeVars, cloneVars, cli, bl, lt, wt, fr, rs, pk, hd, en, dl, rr>>
NextRerun ==
    \/ cloneCmd_MkdirAll /\ CloneOnly
    \/ cloneCmd_initCmd /\ CloneOnly
    \/ cloneCmd_fetchLatestCommitHash /\ CloneOnly
    \/ cloneCmd_writeBranchRefFile /\ CloneOnly
    \/ cloneCmd_fetchObjects_Header /\ CloneOnly
    \/ cloneCmd_fetchObjects_readObject /\ CloneOnly
    \/ cloneCmd_writeFetchedObjects_Object /\ CloneOnly
    \/ cloneCmd_writeFetchedObjects_Return /\ CloneOnly
    \/ cloneCmd_restoreRepository /\ CloneOnly
    \/ cloneCmd_Cancel /\ CancelOnly
    \/ cloneCmd_CancelInWriteBranchRefFile /\ CancelOnly
    \/ cloneCmd_CancelInWriteGitObject /\ CancelOnly
    \/ cloneCmd_CancelInRestoreRepository /\ CancelOnly

InitRerun == RerunInit /\ StoreParked /\ CliParked /\ BlobParked /\ LsTreeParked /\ WriteTreeParked /\ FrameParked /\ RestoreParked /\ PktParked /\ HeaderParked /\ EntryParked /\ DeltaParked /\ ParseTreeParked

SpecRerun == InitRerun /\ [][NextRerun]_vars

\* One pkt-line is sent and read.
NextPkt ==
    \/ packetLine_Send /\ PktOnly
    \/ LengthField_Send /\ PktOnly
    \/ readPacketLine_Run /\ PktOnly

InitPkt ==
    PktInit /\ StoreParked /\ CloneParked /\ CliParked /\ BlobParked /\ LsTreeParked /\ WriteTreeParked /\ FrameParked /\ RestoreParked /\ HeaderParked /\ EntryParked /\ DeltaParked /\ ParseTreeParked /\ RerunParked

SpecPkt == InitPkt /\ [][NextPkt]_vars

\* One pack entry header is decoded.
NextHeader ==
    \/ readObjectTypeAndLen_First /\ HeaderOnly
    \/ readObjectTypeAndLen_Loop /\ HeaderOnly

InitHeader ==
    HeaderInit /\ StoreParked /\ CloneParked /\ CliParked /\ BlobParked /\ LsTreeParked /\ WriteTreeParked /\ FrameParked /\ RestoreParked /\ PktParked /\ EntryParked /\ DeltaParked /\ ParseTreeParked /\ RerunParked

SpecHeader == InitHeader /\ [][NextHeader]_vars

\* One undeltified pack entry is read.
NextEntry ==
    \/ Entry_readObjectTypeAndLen /\ EntryOnly
    \/ Entry_readObject /\ EntryOnly

InitEntry ==
    EntryInit /\ StoreParked /\ CloneParked /\ CliParked /\ BlobParked /\ LsTreeParked /\ WriteTreeParked /\ FrameParked /\ RestoreParked /\ PktParked /\ HeaderParked /\ DeltaParked /\ ParseTreeParked /\ RerunParked

SpecEntry == InitEntry /\ [][NextEntry]_vars

\* One ref-delta entry is applied to its base.
NextDelta ==
    \/ readDeltified_Header /\ DeltaOnly
    \/ readDeltified_Insert /\ DeltaOnly
    \/ readDeltified_Copy /\ DeltaOnly
    \/ readDeltified_Return /\ DeltaOnly
    \/ readObject_saveDeltified /\ DeltaOnly

InitDelta ==
    DeltaInit /\ StoreParked /\ CloneParked /\ CliParked /\ BlobParked /\ LsTreeParked /\ WriteTreeParked /\ FrameParked /\ RestoreParked /\ PktParked /\ HeaderParked /\ EntryParked /\ ParseTreeParked /\ RerunParked

SpecDelta == InitDelta /\ [][NextDelta]_vars

\* One tree body is parsed.
NextParseTree ==
    \/ parseTree_Append /\ ParseTreeOnly
    \/ parseTree_Return /\ ParseTreeOnly

InitParseTree ==
    ParseTreeInit /\ StoreParked /\ CloneParked /\ CliParked /\ BlobParked /\ LsTreeParked /\ WriteTreeParked /\ FrameParked /\ RestoreParked /\ PktParked /\ HeaderParked /\ EntryParked /\ DeltaParked /\ RerunParked

SpecParseTree == InitParseTree /\ [][NextParseTree]_vars
(***************************************************************************)
(* Properties of the object store.                                         *)
(***************************************************************************)
\* The put that began last.
Latest(p) ==
    /\ proc[p].pc # "idle"
    /\ \A q \in Procs : q > p => proc[q].pc = "idle"

\* C1: storing an object whose file is already present (completely written
\* by an earlier put) is a no-op on every write path: the file stays as the
\* put found it (not truncated), the put issues no write on it (not
\* rewritten), and it returns the identifier without error.
C1_PutOfPresentIsNoOp ==
    \A p \in Procs :
        (Latest(p) /\ proc[p].had = Complete(proc[p].obj)) =>
            /\ files[proc[p].obj] = proc[p].had
            /\ proc[p].off = 0
            /\ proc[p].pc = "done" => (proc[p].err = "nil" /\ proc[p].sha = proc[p].obj)

\* Some put has the file of x open and is still writing it.
Writing(x) == \E p \in Procs : proc[p].pc = "write" /\ proc[p].obj = x

\* C2: no half-written file stays visible under the final name: once no put
\* is writing it, a file present at objects/<xx>/<38hex> holds the complete
\* compressed object, also after a failed or interrupted write; and a put
\* that returns success leaves a complete file.
C2_NoHalfWrittenFile ==
    /\ \A x \in ObjIds :
          (files[x].exists /\ ~Writing(x)) => files[x] = Complete(x)
    /\ \A p \in Procs :
          (Latest(p) /\ proc[p].pc = "done" /\ proc[p].err = "nil") =>
              files[proc[p].obj] = Complete(proc[p].obj)

\* No put of x is between its begin and its return.
Settled(x) == \A p \in Procs : proc[p].obj = x => proc[p].pc = "done"

\* C3: parallel puts through writeObject, under every interleaving of their
\* steps: every put returns success with the identifier of its object, also
\* when another put created the fan-out directory first, and once the puts
\* of an identifier have returned its file holds exactly the compressed
\* object.
C3_ParallelPutsSucceed ==
    /\ \A p \in Procs :
          proc[p].pc = "done" => (proc[p].err = "nil" /\ proc[p].sha = proc[p].obj)
    /\ \A p, q \in Procs :
          (proc[p].pc = "done" /\ proc[q].pc = "done" /\ proc[p].obj = proc[q].obj)
              => proc[p].sha = proc[q].sha
    /\ \A x \in ObjIds :
          ((\E p \in Procs : proc[p].obj = x) /\ Settled(x)) => files[x] = Complete(x)

\* Two puts of one identifier raced: both found the file absent, the second
\* found the directory made by the first, both wrote every chunk, both
\* returned.
C3_Witness ==
    \E p, q \in Procs :
        /\ p # q /\ proc[p].obj = proc[q].obj
        /\ proc[p].pc = "done" /\ proc[q].pc = "done"
        /\ proc[p].mkerr = "nil" /\ proc[q].mkerr = "EEXIST"
        /\ proc[p].off = NChunks /\ proc[q].off = NChunks
        /\ files[proc[p].obj] = Complete(proc[p].obj)
(***************************************************************************)
(* Properties of clone.                                                    *)
(***************************************************************************)
\* The header of the pack in flight is as the format asks.
GoodHeader == pack.sign = "PACK" /\ pack.version >= 2

\* C4: a pack whose trailing 20 bytes differ from the SHA-1 of the bytes
\* before them is refused: fetchObjects returns an error, the clone fails,
\* and no object of the pack is kept in the object store.
C4_ChecksumMismatchRefused ==
    (GoodHeader /\ ~pack.trailerOk) =>
        /\ cl.pc \notin {"write", "restore"}
        /\ cl.pc = "done" => cl.exitCode = 1
        /\ fsys.objs = {}

\* C5: the magic "PACK" and a version of at least 2 are verified before any
\* entry is processed: a pack with another magic or version is rejected with
\* an error and none of its entries is read.
C5_MagicAndVersionVerified ==
    (~GoodHeader /\ pack.trailerOk) =>
        /\ cl.rd = 0
        /\ shaToObj = EmptyMap
        /\ cl.pc \notin {"write", "restore"}
        /\ cl.pc = "done" => cl.exitCode = 1

\* The path lies in <dir> (or is <dir>).
InsideRepo(path) ==
    Len(path) >= Len(repoPath) /\ SubSeq(path, 1, Len(repoPath)) = repoPath

\* C6: after a successful clone <url> <dir> the repository is initialised
\* inside <dir>: <dir>/.git/objects and <dir>/.git/refs exist, <dir>/.git/HEAD
\* holds "ref: refs/heads/master\n", <dir>/.git/refs/heads/master holds the
\* advertised HEAD identifier, and nothing outside <dir> was created.
C6_CloneInitialisesInsideDir ==
    (cl.pc = "done" /\ cl.exitCode = 0 /\ GoodHeader /\ pack.trailerOk) =>
        /\ Join(repoPath, <<".git", "objects">>) \in fsys.dirs
        /\ Join(repoPath, <<".git", "refs">>) \in fsys.dirs
        /\ Join(repoPath, <<".git", "HEAD">>) \in DOMAIN fsys.text
        /\ fsys.text[Join(repoPath, <<".git", "HEAD">>)] = "ref: refs/heads/master\n"
        /\ Join(repoPath, <<".git", "refs", "heads", "master">>) \in DOMAIN fsys.text
        /\ fsys.text[Join(repoPath, <<".git", "refs", "heads", "master">>)] = Hex(HeadSha)
        /\ \A path \in (fsys.dirs \ {<<>>}) \cup DOMAIN fsys.text \cup fsys.objs
                          \cup DOMAIN fsys.work : InsideRepo(path)


\* C14: a ref-delta whose base was produced by an earlier entry of the pack
\* is resolved against the session map: the object made has the type of the
\* base and the delta applied to the base's body, and it is recorded under
\* the identifier of its own framed bytes, where a later ref-delta finds it.
C14_RefDeltaResolvedFromSession ==
    \A k \in 1..cl.rd :
        pack.entries[k].type = objRefDelta =>
            /\ pack.entries[k].base \in DOMAIN shaToObj
            /\ LET baseObj == shaToObj[pack.entries[k].base]
                   made == [Type |-> baseObj.Type, data |-> baseObj.data \o pack.entries[k].ins,
                            tree |-> baseObj.tree, children |-> baseObj.children]
               IN  /\ baseObj = Universe[pack.entries[k].base]
                   /\ \E id \in DOMAIN shaToObj :
                         /\ Universe[id] = made
                         /\ shaToObj[id] = made
                         /\ id # pack.entries[k].base

\* A chain: a blob, a ref-delta on it, and a ref-delta on the object that
\* the first delta made, all three read.
C14_Witness ==
    /\ cl.rd = 3
    /\ pack.entries[1].type = objBlob
    /\ pack.entries[2].type = objRefDelta /\ pack.entries[2].base = 1
    /\ pack.entries[3].type = objRefDelta /\ pack.entries[3].base = 2
    /\ DOMAIN shaToObj = {1, 2, 5}
    /\ shaToObj[5] = Universe[5]

\* C15: a ref-delta resolves when its base was made by an earlier entry of
\* the pack or is present in the on-disk object store; readObject fails with
\* the unknown-base error only when the base is in neither place.
C15_BaseFromPackOrStore ==
    (cl.pc = "done" /\ cl.err = "Unknown obj sha") =>
        LET e == pack.entries[cl.rd + 1]
        IN  /\ e.base \notin DOMAIN shaToObj
            /\ ~Stored(fsys, repoPath, e.base)

\* The types readObject can make an object of.
ReadableTypes == {objCommit, objTree, objBlob, objRefDelta}

\* C16: an entry of type ofs-delta or tag, or of any type outside
\* {1, 2, 3, 7}, makes readObject return an error that fetchObjects
\* propagates: reading stops at that entry, nothing is recorded for it, no
\* object file is written, and the clone fails.
C16_UnsupportedTypesFail ==
    /\ \A id \in DOMAIN shaToObj : shaToObj[id].Type \in {objCommit, objTree, objBlob}
    /\ \A k \in 1..Len(pack.entries) :
          pack.entries[k].type \notin ReadableTypes =>
              /\ cl.rd < k
              /\ cl.pc \notin {"write", "restore"}
              /\ fsys.objs = {}
              /\ cl.pc = "done" => cl.exitCode = ExitCodeError
              /\ (cl.pc = "done" /\ cl.rd = k - 1) => cl.err \in {"Unsupported", "Invalid type"}

\* A blob was read, then the clone failed at a tag entry.
C16_Witness ==
    /\ cl.pc = "done" /\ cl.rd = 1 /\ Len(pack.entries) >= 2
    /\ pack.entries[1].type = objBlob
    /\ pack.entries[2].type = objTag
    /\ cl.err = "Invalid type" /\ cl.exitCode = ExitCodeError
    /\ DOMAIN shaToObj = {1}

\* C17: a clone cancelled at any point and then run again to completion
\* leaves the object store, the branch ref and the materialised files as a
\* clone that was never interrupted leaves them, with the same status, and
\* no partially written object file is left.
C17_RerunAfterCancelIsSafe ==
    (rr.pc = "run" /\ rr.run = 2 /\ cl.pc = "done") =>
        /\ fsys = cloneCmd(pack, repoPath).fs
        /\ fsys.partial = {}
        /\ cl.exitCode = cloneCmd(pack, repoPath).exitCode
        /\ cl.err = cloneCmd(pack, repoPath).err

\* The first run was cancelled in the middle of writing an object file, the
\* second run succeeded and materialised a.txt.
C17_Witness ==
    /\ rr.pc = "run" /\ rr.run = 2 /\ rr.at = "writeGitObject"
    /\ cl.pc = "done" /\ cl.exitCode = ExitCodeOK
    /\ fsys.partial = {}
    /\ Join(repoPath, <<"a.txt">>) \in DOMAIN fsys.work

\* The identifier entry k of es makes when it is read after the entries
\* before it: of its own body, or of its base's body with ins appended;
\* 0 when it makes none.
RECURSIVE MadeBy(_, _)
MadeBy(es, k) ==
    LET e == es[k]
        body == IF e.type = objRefDelta
                   THEN IF e.base \in { MadeBy(es, j) : j \in 1..(k - 1) } \ {0}
                           THEN [Universe[e.base] EXCEPT !.data = @ \o e.ins]
                           ELSE NoObj
                   ELSE IF e.type \in {objCommit, objTree, objBlob} /\ e.size = BufLen(e.obj)
                           THEN e.obj ELSE NoObj
    IN  IF \E i \in Shas : Universe[i] = body THEN CHOOSE i \in Shas : Universe[i] = body ELSE 0

\* Every entry of the pack in flight is well-formed and resolvable.
WellFormedPack ==
    /\ GoodHeader /\ pack.trailerOk /\ pack.numObjects = Len(pack.entries)
    /\ \A k \in 1..Len(pack.entries) : MadeBy(pack.entries, k) # 0

\* C26: for a well-formed pack of N entries fetchObjects reads the entries
\* in file order, exactly N of them, and stops exactly when what is left of
\* the buffer is the 20-byte trailer; for N = 0 it reads no entry, takes no
\* trailer byte for an entry and returns without error.
C26_ReadsExactlyNEntries ==
    WellFormedPack =>
        /\ cl.rd <= pack.numObjects
        /\ DOMAIN shaToObj = { MadeBy(pack.entries, k) : k \in 1..cl.rd }
        /\ cl.pc = "read" => cl.rd < pack.numObjects
        /\ cl.pc \in {"write", "restore"} => cl.rd = pack.numObjects
        /\ cl.pc = "done" =>
              /\ cl.rd = pack.numObjects
              /\ cl.err \in {"nil", "ENOENT", "Invalid commit blob"}

\* The errors fetchObjects returns.
FetchErrors ==
    {"Unknown obj sha", "Unsupported", "Expected obj len", "Invalid type", "zlib: invalid header"}

\* The object files of the identifiers ids.
ObjectFilesOf(ids) == { objectFilePath(repoPath, id) : id \in ids }

\* C29: writeFetchedObjects runs only after fetchObjects returned without
\* error: when an entry of the pack fails, no object file of the pack is in
\* <dir>/.git/objects when the clone returns its error; on success every
\* object of the session map is written at the path of the identifier of its
\* framed bytes, in whatever order the map is walked.
C29_IngestionAllOrNothing ==
    /\ cl.pc \in {"mkdir", "init", "head", "ref", "fetch", "read"} => fsys.objs = {}
    /\ (cl.pc = "done" /\ cl.err \in FetchErrors) =>
          /\ cl.exitCode = ExitCodeError
          /\ fsys.objs = {}
    /\ cl.pc = "write" =>
          /\ cl.rd = Len(pack.entries)
          /\ fsys.objs = ObjectFilesOf(cl.visited)
    /\ (cl.pc = "restore" \/ (cl.pc = "done" /\ cl.err \notin FetchErrors)) =>
          /\ \A id \in DOMAIN shaToObj : shaToObj[id] = Universe[id]
          /\ fsys.objs = ObjectFilesOf(DOMAIN shaToObj)
          /\ \A f \in fsys.objs : SubSeq(f, 1, Len(f) - 2) = Join(repoPath, <<".git", "objects">>)

\* Two entries were read, the third failed: the clone returned the error
\* and the object store holds nothing.
C29_Witness ==
    /\ cl.pc = "done" /\ cl.exitCode = ExitCodeError /\ cl.err = "Expected obj len"
    /\ cl.rd = 2 /\ Cardinality(DOMAIN shaToObj) = 2
    /\ fsys.objs = {}

\* The branch ref file holds the advertised identifier.
RefWritten ==
    /\ RefFilePath(repoPath) \in DOMAIN fsys.text
    /\ fsys.text[RefFilePath(repoPath)] = Hex(HeadSha)

CliSurface ==
    {"init", "cat-file", "hash-object", "ls-tree", "write-tree", "commit-tree", "clone"}

\* The handler the CLI surface names for a command.
HandlerOf(command) ==
    CASE command = "init" -> "initCmd"
      [] command = "cat-file" -> "catFileCmd"
      [] command = "hash-object" -> "hashObjectCmd"
      [] command = "ls-tree" -> "lsTreeCmd"
      [] command = "write-tree" -> "writeTreeCmd"
      [] command = "commit-tree" -> "createCommitCmd"
      [] command = "clone" -> "cloneCmd"
      [] OTHER -> "default"

\* C7: run routes each of the seven commands of the CLI surface to its
\* handler and returns that handler's status; the "unknown command" status
\* is returned only for a command name outside the surface.
C7_RunRoutesTheCliSurface ==
    cli.handler # "none" =>
        /\ cli.argv[2] \in CliSurface => cli.handler = HandlerOf(cli.argv[2])
        /\ cli.status.err = "unknown command" => cli.argv[2] \notin CliSurface
        /\ (cli.pc \in {"main_return", "exit"} /\ cli.result.err # "none")
              => cli.status = cli.result

\* The invocation lacks arguments of its command.
MissingArguments(argv) ==
    /\ Len(argv) >= 2
    /\ \/ argv[2] \in {"cat-file", "hash-object", "ls-tree", "clone"} /\ Len(argv) < 4
       \/ argv[2] = "commit-tree" /\ Len(argv) < 7

\* C8: an invocation with missing arguments ends as an error status, exit
\* code 1 with a diagnostic on stderr, never as an index-out-of-range panic.
C8_MissingArgumentsAreUsageErrors ==
    (MissingArguments(cli.argv) /\ cli.pc = "exit") =>
        /\ cli.exit = ExitCodeError
        /\ cli.stderr \notin {"none", "panic: index out of range"}

\* C9: hash-object -w stores "blob <len>\0" + c for the file content c, and
\* cat-file -p on the identifier it printed prints exactly c.
C9_HashObjectCatFileRoundTrip ==
    /\ bl.pc \in {"hashed", "printed"} =>
          Inflate(bl.objects[bl.hash]) = Framed(BlobTag, bl.content)
    /\ bl.pc = "printed" => bl.out = bl.content

\* The names of the entries of a tree.
EntryNames(es) == [i \in 1..Len(es) |-> es[i].name]

\* C10: ls-tree --name-only prints exactly the names of the entries of the
\* tree, one a line, in ascending order, whatever bytes the raw identifiers
\* and the names hold.
C10_LsTreePrintsSortedNames ==
    lt.pc = "printed" => lt.out = SortStrings(EntryNames(lt.entries))

(***************************************************************************)
(* Properties of write-tree.                                               *)
(***************************************************************************)
\* The trees written so far: those in the store and the one being built by
\* each running call.
EmittedTrees ==
    { o[2] : o \in { x \in wt.objects : x[1] = "tree" } }
    \cup { wt.stack[k].treeBuffer : k \in 1..Len(wt.stack) }

\* The key an entry is ordered by: its name, a directory's followed by '/'.
CanonicalKey(e) == IF e[1] = "40000" THEN e[2] \o Slash ELSE e[2]

\* C11: WriteTreeObject emits the entries of every tree in the canonical
\* order: byte-wise ascending on the name, a directory comparing as if its
\* name ended in '/'.
C11_EntriesInCanonicalOrder ==
    \A t \in EmittedTrees :
        \A i \in 1..(Len(t) - 1) : StringLess(CanonicalKey(t[i]), CanonicalKey(t[i + 1]))

\* C18: every child is stored before its parent: each identifier recorded in
\* an entry of a stored tree names an object present in the store, also on
\* executions in which reading or storing a child fails.
C18_ChildrenStoredBeforeParent ==
    \A o \in wt.objects :
        o[1] = "tree" => \A i \in 1..Len(o[2]) : o[2][i][3] \in wt.objects

(***************************************************************************)
(* Properties of the framing.                                              *)
(***************************************************************************)
\* C12: every object written by hash-object, write-tree, commit-tree or
\* clone is framed as "<type> <size>\0<body>" with <size> the decimal byte
\* length of the whole body, and readObjectContent on it returns exactly the
\* body written.
C12_FramedWithBodyLength ==
    /\ fr.pc \in {"written", "read"} =>
          Inflate(fr.object) = fr.type \o <<SP>> \o Decimal(Len(fr.body)) \o <<NUL>> \o fr.body
    /\ fr.pc = "read" => (fr.err = "nil" /\ fr.contents = fr.body)

(***************************************************************************)
(* Properties of restoreRepository.                                        *)
(***************************************************************************)
\* The path is the destination directory or lies below it.
InsideDestination(p) ==
    /\ Len(p) >= Len(rs.repoPath)
    /\ SubSeq(p, 1, Len(rs.repoPath)) = rs.repoPath
    /\ \A i \in 1..Len(p) : p[i] # ".."

\* C13: a tree entry whose name contains '/' or is "." or ".." is rejected
\* with an error before anything is written for it, and traverseTree never
\* creates or overwrites a file or directory outside repoPath.
C13_UnsafeNamesRejected ==
    /\ rs.unsafe => (rs.pc = "done" /\ rs.err \notin {"none", "nil"})
    /\ \A p \in rs.made \cup DOMAIN rs.files : InsideDestination(p)


\* C28: an entry is materialised as a blob iff its mode starts with "100"
\* and as a subtree iff its mode is "40000" or "040000"; an entry of any
\* other mode, a symlink 120000 or a gitlink 160000, is reported as an
\* unsupported mode and its object is never parsed as a tree.
C28_OnlyTreeModesDescended ==
    /\ \A mode \in rs.asBlob : SubSeq(mode, 1, 3) = <<1, 0, 0>>
    /\ rs.asTree \subseteq {ModeTree, ModeTreeZero}
    /\ RestoreBlobSha \notin rs.parsed
    /\ (rs.pc = "done" /\ rs.err = "nil") =>
          \A k \in 1..Len(rs.root) :
              rs.root[k].mode \in {ModeBlob, ModeTree, ModeTreeZero}
(***************************************************************************)
(* Properties of the pkt-line framing.                                     *)
(***************************************************************************)
\* C19: readPacketLine on packetLine(s) returns exactly s and consumes
\* exactly len(s) + 4 bytes, the length field counting itself; "0000" is
\* returned as the empty payload and only its 4 bytes are consumed; a length
\* field of 1, 2 or 3 yields an error value, not a crash.
C19_PktLineRoundTrip ==
    /\ pk.pc = "read_framed" =>
          /\ HexNumber(pk.field) = Len(pk.payload) + 4
          /\ pk.err = "nil" /\ pk.out = pk.payload /\ pk.rest = pk.follows
    /\ (pk.pc = "read_sent" /\ pk.field = Hex04(0)) =>
          /\ pk.err = "nil" /\ pk.out = <<>> /\ pk.rest = pk.payload \o pk.follows
    /\ (pk.pc = "read_sent" /\ pk.field \in {Hex04(1), Hex04(2), Hex04(3)}) =>
          pk.err \notin {"nil", "none", "panic: makeslice: len out of range"}

(***************************************************************************)
(* Properties of the pack entry header.                                    *)
(***************************************************************************)
\* The size the variable-length format gives the header bytes h: the low four
\* bits of the first byte, then seven bits of each following byte.
RECURSIVE FormatSize(_, _)
FormatSize(h, n) ==
    IF n = 1 THEN BitAnd(h[1], firstRemMask)
    ELSE FormatSize(h, n - 1) + ShiftLeft(BitAnd(h[n], remMask), 4 + 7 * (n - 2))

\* C20: for a header of any length, readObjectTypeAndLen returns as type the
\* bits 4-6 of the first byte and as size the low four bits of the first byte
\* plus (byte_k & 0x7f) << (4 + 7k) for the following bytes k = 0, 1, ...;
\* the top bit of a byte adds nothing to the size.
C20_HeaderDecodedPerFormat ==
    (hd.pc = "returned" /\ hd.err = "nil") =>
        /\ hd.objType = (hd.read[1] \div 16) % 8
        /\ hd.num = FormatSize(hd.read, Len(hd.read))

(***************************************************************************)
(* Properties of an undeltified pack entry.                                *)
(***************************************************************************)
\* C21: an entry of type commit, tree or blob is accepted iff the inflated
\* length of its stream equals the size its header declares, whatever the
\* size: on equality the body is recorded under the identifier of
\* frame(type, body), on inequality readObject fails and records nothing.
C21_AcceptedIffDeclaredSize ==
    en.pc = "returned" =>
        LET body == Inflate(en.deflated)
            type == (en.header[1] \div 16) % 8
        IN  IF FormatSize(en.header, Len(en.header)) = Len(body)
               THEN /\ en.err = "nil"
                    /\ DOMAIN en.map = {Framed(typeTag(type), body)}
                    /\ en.map[Framed(typeTag(type), body)] = [Type |-> type, Buf |-> body]
               ELSE /\ en.err # "nil"
                    /\ en.map = EmptyMap

(***************************************************************************)
(* Properties of a ref-delta entry.                                        *)
(***************************************************************************)
\* Bit i of an opcode.
OpBit(op, i) == (op \div 2 ^ i) % 2

\* The operand byte that bit i of the opcode selects: the bytes follow the
\* opcode in the order of the bits that are set; an absent byte reads as 0.
Operand(s, i) ==
    IF OpBit(s[1], i) = 0 THEN 0
    ELSE s[2 + Cardinality({ j \in 0..(i - 1) : OpBit(s[1], j) = 1 })]

\* How many operand bytes follow a copy opcode.
OperandCount(op) == Cardinality({ j \in 0..6 : OpBit(op, j) = 1 })

CopyOffset(s) ==
    Operand(s, 0) + 256 * Operand(s, 1) + 65536 * Operand(s, 2) + 16777216 * Operand(s, 3)

CopySize(s) == Operand(s, 4) + 256 * Operand(s, 5) + 65536 * Operand(s, 6)

\* The reference reconstruction of the instruction stream s over a base
\* body: the output, and whether every instruction is whole, every copy lies
\* in the base and no copy has size zero.
RECURSIVE Reconstruct(_, _, _)
Reconstruct(base, s, out) ==
    IF s = <<>> THEN [ok |-> TRUE, out |-> out]
    ELSE IF s[1] < 128
         THEN IF Len(s) - 1 < s[1] THEN [ok |-> FALSE, out |-> out]
              ELSE Reconstruct(base, SubSeq(s, s[1] + 2, Len(s)), out \o SubSeq(s, 2, s[1] + 1))
    ELSE IF Len(s) - 1 < OperandCount(s[1]) THEN [ok |-> FALSE, out |-> out]
    ELSE IF CopySize(s) = 0 \/ CopyOffset(s) + CopySize(s) > Len(base)
         THEN [ok |-> FALSE, out |-> out]
    ELSE Reconstruct(base, SubSeq(s, OperandCount(s[1]) + 2, Len(s)),
                     out \o SubSeq(base, CopyOffset(s) + 1, CopyOffset(s) + CopySize(s)))

\* The instruction stream of the delta in flight, after its two sizes.
InstructionStream == ReadUvarint(ReadUvarint(dl.delta).rest).rest

HeaderRead == ReadUvarint(dl.delta).err = "nil" /\ ReadUvarint(ReadUvarint(dl.delta).rest).err = "nil"

IsPrefix(p, s) == Len(p) <= Len(s) /\ SubSeq(s, 1, Len(p)) = p

\* C22: readDeltified applies the instructions in order and its output is
\* the reference reconstruction: an opcode with the top bit clear appends
\* the next N literal bytes, one with the top bit set appends
\* base[offset : offset+size] with offset and size assembled little-endian
\* from the selected bytes; copy |b1| from 0 then insert '!' gives b1 '!'.
C22_OutputIsReconstruction ==
    (HeaderRead /\ Reconstruct(Buf(dl.base), InstructionStream, <<>>).ok
       /\ Len(Reconstruct(Buf(dl.base), InstructionStream, <<>>).out) = ReadUvarint(ReadUvarint(dl.delta).rest).x) =>
        LET out == Reconstruct(Buf(dl.base), InstructionStream, <<>>).out
        IN  /\ dl.pc # "panic"
            /\ IsPrefix(dl.result, out)
            /\ dl.pc = "deltified" => dl.result = out
            /\ dl.pc = "returned" =>
                  /\ dl.err = "nil" /\ dl.result = out
                  /\ DOMAIN dl.saved = {Framed(BlobTag, out)}
                  /\ dl.saved[Framed(BlobTag, out)] = [Type |-> objBlob, Buf |-> out]

\* b1, the delta (copy 1 byte from offset 0)(insert '!'), and b1 '!' made.
C22_Witness ==
    /\ dl.pc = "returned" /\ dl.err = "nil"
    /\ Buf(dl.base) = <<1>> /\ InstructionStream = <<144, 1, 1, 33>>
    /\ dl.result = <<1, 33>>
    /\ Framed(BlobTag, <<1, 33>>) \in DOMAIN dl.saved

\* C23: a copy whose computed size is zero copies 0x10000 bytes: 65536
\* bytes of the base from the offset on are appended, not none.
C23_ZeroSizeCopies64K ==
    (dl.last.op = "copy" /\ dl.last.size = 0 /\ dl.last.offset + 65536 <= Len(Buf(dl.base))) =>
        /\ dl.pc # "panic"
        /\ Len(dl.result) = dl.last.before + 65536
        /\ SubSeq(dl.result, dl.last.before + 1, Len(dl.result))
              = SubSeq(Buf(dl.base), dl.last.offset + 1, dl.last.offset + 65536)

\* C24: a copy whose range [offset, offset+size) is not inside the base
\* body makes readDeltified return an error: the process does not crash and
\* no byte from beyond the end of the base body is appended.
C24_CopyOutOfRangeIsError ==
    (dl.last.op = "copy" /\ dl.last.size > 0
       /\ dl.last.offset + dl.last.size > Len(Buf(dl.base))) =>
        /\ dl.pc = "returned"
        /\ dl.err \notin {"nil", "none"}
        /\ Len(dl.result) = dl.last.before

\* C25: readDeltified returns a body only when, at the end of the
\* instructions, the output is dst_size bytes long; otherwise it returns an
\* error and readObject records nothing: an object made from a ref-delta has
\* a body of exactly dst_size bytes.
C25_BodyHasDeclaredLength ==
    /\ dl.pc = "deltified" => Len(dl.result) = dl.dstObjLen
    /\ (dl.pc = "returned" /\ dl.err = "nil") =>
          /\ Len(dl.result) = dl.dstObjLen
          /\ dl.dstObjLen = ReadUvarint(ReadUvarint(dl.delta).rest).x
          /\ DOMAIN dl.saved = {Framed(BlobTag, dl.result)}
    /\ (dl.pc \in {"returned", "panic"} /\ dl.err # "nil") => dl.saved = EmptyMap

\* The instructions ran to their end with an output shorter than dst_size:
\* the error is returned and only the base is in the session map.
C25_Witness ==
    /\ dl.pc = "returned" /\ dl.err = "Invalid deltified buf"
    /\ dl.reader = <<>> /\ dl.result # <<>>
    /\ Len(dl.result) < dl.dstObjLen
    /\ dl.saved = EmptyMap

(***************************************************************************)
(* Properties of parseTree.                                                *)
(***************************************************************************)
\* The number of entries of a tree body that is a whole number of entries
\* "<mode> <name>\0<20 bytes>", -1 for any other body.
RECURSIVE WholeEntries(_)
WholeEntries(buf) ==
    IF buf = <<>> THEN 0
    ELSE LET sp == IndexByte(buf, SP)
             afterMode == SubSeq(buf, sp + 1, Len(buf))
             nul == IndexByte(afterMode, NUL)
             more == WholeEntries(SubSeq(afterMode, nul + RawIdLen + 1, Len(afterMode)))
         IN  IF sp = 0 \/ nul = 0 \/ Len(afterMode) - nul < RawIdLen \/ more < 0
                THEN -1 ELSE 1 + more

\* C27: parseTree fails for every tree body that is not a whole number of
\* well-formed entries: trailing bytes without a space, a name without NUL,
\* fewer than 20 bytes after a name's NUL. It returns no tree that drops
\* trailing bytes or holds an identifier made of fewer than 20 bytes.
C27_MalformedTreeRejected ==
    pt.pc = "returned" =>
        /\ WholeEntries(pt.treeBuf) < 0 => pt.err # "nil"
        /\ pt.err = "nil" =>
              /\ pt.unread = 0
              /\ Len(pt.children) = WholeEntries(pt.treeBuf)

====
